---- MODULE Spec2Model ----
(***************************************************************************)
(* FinTrack client cache and background synchronisation layer:             *)
(* BackgroundSync (apiClient.ts), UserCacheManager (userCacheManager.ts),  *)
(* FinancialCacheManager (financialCacheManager.ts) and the key-value      *)
(* helpers of capacitorPreferences.ts.                                     *)
(*                                                                         *)
(* JavaScript runs the code between two awaits atomically; every await of  *)
(* a network call or of a Preferences call is a point where another        *)
(* pending call may run.  Each action below is one such atomic piece: the  *)
(* effect of the awaited call together with the code that runs up to the   *)
(* next await.                                                             *)
(***************************************************************************)
EXTENDS Integers, Sequences, FiniteSets, TLC

VARIABLES
    store,              \* Capacitor Preferences: key -> stored value
    srvUser,            \* the server's user record
    srvFin,             \* the server's finance version (last_updated)
    pendingUpdates,     \* BackgroundSync.pendingUpdates
    isCurrentlySyncing, \* BackgroundSync.isCurrentlySyncing
    nowMs,              \* Date.now() as seen by queueUserUpdate
    clock,              \* number of new Date() timestamps taken so far
    pc,                 \* per call slot: the await the call is suspended at
    op,                 \* per call slot: the public operation running
    loc,                \* per call slot: the locals of the call
    acked,              \* history: entry timestamps whose data a 200 PUT carried
    lastQueued,         \* history: the data of the latest queueUserUpdate call
    user,               \* App: the React user state (useState / setUser)
    pairedTs,           \* history: the timestamp passed to the writeback that
                        \* wrote the stored user payload
    pre                 \* history: the store when the call in progress started
                        \* (kept where calls run one at a time)

vars == <<store, srvUser, srvFin, pendingUpdates, isCurrentlySyncing,
          nowMs, clock, pc, op, loc, acked, lastQueued, user, pairedTs, pre>>

(***************************************************************************)
(* Bounds                                                                  *)
(***************************************************************************)
\* server-side versions of the user record (updated_at values 1..MaxVer)
MaxVer == 3
\* server-side versions of the finance data (last_updated values 1..MaxFinVer)
MaxFinVer == 2
\* queueUserUpdate calls in one run
MaxUpdates == 2
\* new Date() timestamps taken in one run before new calls stop being started
MaxClock == 1

Procs == {"p1", "p2"}
Names == {"Alice", "Alicia"}

(***************************************************************************)
(* Values                                                                  *)
(***************************************************************************)
\* null / undefined of a structured value
Null == [null |-> TRUE]
\* null / undefined / "" of a timestamp or of a base64 string (falsy)
NoTs == 0

\* new Date().toISOString(): a client timestamp, never equal to a server one.
\* Client timestamps are the negative numbers, the k-th one taken is -k.
ClientNow(c) == 0 - (c + 1)

\* JSON.stringify / JSON.parse of a plain value: the stored form is a string
\* wrapping the value, not the value.
JSONstringify(v) == [json |-> v]
JSONparse(s) == s.json

\* Preferences.get: { value } is null for an absent key
NoValue == [absent |-> TRUE]

\* a stored string that JSON.parse rejects
Corrupt == [corrupt |-> TRUE]

EmptyStore ==
    [userData |-> NoValue, userUpdatedAt |-> NoTs,
     userPhoto |-> NoTs, userPhotoTs |-> NoTs,
     financeData |-> NoValue, financeTs |-> NoValue]

(***************************************************************************)
(* Remote Data Service (external): the user record                         *)
(***************************************************************************)
\* GET /api/users/profile and the body of a 200 answer to PUT
UserPayload(s) ==
    [name |-> s.name, photo |-> s.photo,
     created_at |-> 1, updated_at |-> s.updated_at]

\* PUT /api/users/profile applied by the server
ServerApplyUpdate(s, body) ==
    [s EXCEPT !.name = body.name, !.updated_at = s.updated_at + 1]

(***************************************************************************)
(* BackgroundSync                                                          *)
(***************************************************************************)
\* every entry of the queue, synced or not
AllUpdates(q) == q

\* this.pendingUpdates.filter((u) => !u.synced)
Unsynced(q) == SelectSeq(q, LAMBDA u : ~u.synced)

\* getPendingUpdateCount
getPendingUpdateCount == Len(Unsynced(pendingUpdates))

\* hasPendingUpdates
hasPendingUpdates == \E i \in 1..Len(pendingUpdates) : ~pendingUpdates[i].synced

EnqueueKeepingAll(q, u) == Append(q, u)

\* queueUserUpdate: this.pendingUpdates.filter(u => u.synced) then push
Enqueue(q, u) == Append(SelectSeq(q, LAMBDA e : e.synced), u)

ShouldAttemptSyncAlways == TRUE

\* shouldAttemptSync
shouldAttemptSync == ~isCurrentlySyncing

\* performSync: unsyncedUpdates[unsyncedUpdates.length - 1]
LatestUpdate(unsynced) == unsynced[Len(unsynced)]

MarkNoneSynced(q) == q

\* handleSyncSuccess: this.pendingUpdates.forEach(update => update.synced = true)
MarkAllSynced(q) == [i \in 1..Len(q) |-> [q[i] EXCEPT !.synced = TRUE]]

\* handleSyncSuccess: serverData.updated_at || serverData.created_at
SyncTimestamp(serverData) ==
    IF serverData.updated_at # NoTs THEN serverData.updated_at ELSE serverData.created_at

(***************************************************************************)
(* capacitorPreferences.ts: reads                                          *)
(***************************************************************************)
\* getUserData: JSON.parse of the stored string, null for an absent key and
\* for a string that does not parse (the inner try/catch)
ParseUserData(cell) ==
    IF cell = NoValue \/ cell = Corrupt THEN Null ELSE JSONparse(cell)

(***************************************************************************)
(* UserCacheManager: decisions                                             *)
(***************************************************************************)
UserShouldUpdateNever(cachedData, cachedTimestamp, serverTimestamp) == FALSE

UserShouldUpdateAlways(cachedData, cachedTimestamp, serverTimestamp) == TRUE

\* checkUserUpdateStatus: the shouldUpdate decision after a 200 probe
UserShouldUpdate(cachedData, cachedTimestamp, serverTimestamp) ==
    IF cachedData = Null \/ cachedTimestamp = NoTs
    THEN TRUE
    ELSE serverTimestamp # cachedTimestamp

\* a shouldFetchPhoto that asks for the download at every writeback
shouldFetchPhotoAlways(photoBlob, cachedPhotoTimestamp, userUpdatedAt) == TRUE

\* a shouldFetchPhoto that looks at the marker alone
shouldFetchPhotoByMarkerOnly(photoBlob, cachedPhotoTimestamp, userUpdatedAt) ==
    IF cachedPhotoTimestamp = NoTs THEN TRUE
    ELSE cachedPhotoTimestamp # userUpdatedAt

\* shouldFetchPhoto, given what getUserPhotoBlob returned
shouldFetchPhoto(photoBlob, cachedPhotoTimestamp, userUpdatedAt) ==
    IF photoBlob = NoTs THEN TRUE
    ELSE IF cachedPhotoTimestamp = NoTs THEN TRUE
    ELSE cachedPhotoTimestamp # userUpdatedAt

\* cacheUserData: userData.updated_at || cacheTimestamp
PhotoVersionOf(userData, cacheTimestamp) ==
    IF userData.updated_at # NoTs THEN userData.updated_at ELSE cacheTimestamp

\* getCachedPhotoDataUrl: `data:image/jpeg;base64,${photoBlob}`; photo URLs are
\* the positive numbers, data URLs the negative ones
DataUrl(blob) == 0 - blob

\* getCachedDataWithPhoto: the cached blob replaces the photo URL
WithPhoto(data, blob) ==
    IF data = Null THEN Null
    ELSE IF blob # NoTs THEN [data EXCEPT !.photo = DataUrl(blob)] ELSE data

\* getUserDataWithCache / fetchAndCacheFinanceData:
\* serverTimestamp || new Date().toISOString()
FreshTimestamp(serverTimestamp, c) ==
    IF serverTimestamp # NoTs THEN serverTimestamp ELSE ClientNow(c)

FailSoftForcingUpdate(l, cachedData) ==
    [l EXCEPT !.cachedData = cachedData, !.shouldUpdate = TRUE,
              !.serverTimestamp = NoTs]

\* checkUserUpdateStatus / checkFinanceUpdateStatus when the probe did not
\* answer 200: { shouldUpdate: false, cachedData, serverTimestamp: null }
FailSoft(l, cachedData) ==
    [l EXCEPT !.cachedData = cachedData, !.shouldUpdate = FALSE,
              !.serverTimestamp = NoTs]

(***************************************************************************)
(* Call slots                                                              *)
(***************************************************************************)
InitLoc ==
    [serverTimestamp |-> NoTs,   \* updateStatus.serverTimestamp
     cachedTimestamp |-> NoTs,   \* cachedTimestamp
     cachedData      |-> Null,   \* updateStatus.cachedData
     shouldUpdate    |-> FALSE,  \* updateStatus.shouldUpdate
     wbData          |-> Null,   \* cacheUserData: userData
     wbTs            |-> NoTs,   \* cacheUserData: cacheTimestamp
     photoBlob       |-> NoTs,   \* shouldFetchPhoto: photoBlob
     photoContent    |-> NoTs,   \* fetchAndCachePhotoBlob: base64Data
     sent            |-> Null,   \* performSync: latestUpdate
     txResp          |-> Null,   \* fetchAndCacheFinanceData: transactionsResponse
     accResp         |-> Null,   \* fetchAndCacheFinanceData: accountsResponse
     ret             |-> Null,   \* the value the call resolved to
     retOk           |-> FALSE,  \* the boolean a sync call resolved to
     \* history of the call
     probe           |-> "none", \* how the timestamp probe ended
     fetch           |-> "none", \* how the full fetch ended
     nProbe          |-> 0,      \* timestamp probes issued
     nFull           |-> 0,      \* full fetches issued
     nPhoto          |-> 0,      \* photo downloads issued
     nPut            |-> 0,      \* updateUserProfile requests issued
     edit            |-> 0,      \* the timestamp of the entry that was unsynced
                                 \* when the pass reached its staleness step
     held            |-> Null,   \* getAccountsWithCachedBalances: cachedData
     stage           |-> 0,      \* handlePhotoUploadFile: 1 once cacheUserData
                                 \* has returned
     nFault          |-> 0]      \* Preferences calls that threw

\* new calls are started while client timestamps remain
CanStart(p) == pc[p] = "idle" /\ clock < MaxClock

\* the history is off where calls overlap
NoHistory == [off |-> TRUE]

Begin(p, o, where, l) ==
    /\ pc' = [pc EXCEPT ![p] = where]
    /\ op' = [op EXCEPT ![p] = o]
    /\ loc' = [loc EXCEPT ![p] = l]
    /\ pre' = IF pre = NoHistory THEN pre ELSE store

Goto(p, where, l) ==
    /\ pc' = [pc EXCEPT ![p] = where]
    /\ loc' = [loc EXCEPT ![p] = l]
    /\ UNCHANGED <<op, pre>>

At(p, where) == pc[p] = where

SyncState == <<pendingUpdates, isCurrentlySyncing, nowMs, acked, lastQueued>>
Server == <<srvUser, srvFin>>

(***************************************************************************)
(* BackgroundSync: operations                                              *)
(***************************************************************************)
SyncOps == {"attemptSync", "forceSyncNow", "syncIfPending"}

\* a queueUserUpdate that sends the entry at once when a slot is free
queueUserUpdateAutoSync(n) ==
    /\ nowMs < MaxUpdates
    /\ nowMs' = nowMs + 1
    /\ pendingUpdates' =
           Enqueue(pendingUpdates,
                   [data |-> [name |-> n], timestamp |-> nowMs + 1, synced |-> FALSE])
    /\ lastQueued' = [name |-> n]
    /\ IF pc["p2"] = "idle" /\ ~isCurrentlySyncing
       THEN /\ pc' = [pc EXCEPT !["p2"] = "sync_put"]
            /\ op' = [op EXCEPT !["p2"] = "queueUserUpdate"]
            /\ loc' = [loc EXCEPT !["p2"] =
                          [InitLoc EXCEPT !.sent = LatestUpdate(pendingUpdates'),
                                          !.nPut = 1]]
            /\ isCurrentlySyncing' = TRUE
       ELSE UNCHANGED <<pc, op, loc, isCurrentlySyncing>>
    /\ UNCHANGED <<user, store, pairedTs, Server, clock, acked, pre>>

\* queueUserUpdate(userData): synchronous, runs in any state
queueUserUpdate(n) ==
    /\ nowMs < MaxUpdates
    /\ nowMs' = nowMs + 1
    /\ pendingUpdates' =
           Enqueue(pendingUpdates,
                   [data |-> [name |-> n], timestamp |-> nowMs + 1, synced |-> FALSE])
    /\ lastQueued' = [name |-> n]
    /\ UNCHANGED <<user, store, pairedTs, Server, isCurrentlySyncing, clock, pc, op, loc, acked, pre>>

\* attemptSync / forceSyncNow / syncIfPending up to the await of
\* ApiClient.updateUserProfile in performSync
CallSync(p, o) ==
    /\ CanStart(p)
    /\ LET l == InitLoc IN
       IF o = "syncIfPending" /\ ~hasPendingUpdates
       THEN /\ Begin(p, o, "done", [l EXCEPT !.retOk = TRUE])
            /\ UNCHANGED isCurrentlySyncing
       ELSE IF ~shouldAttemptSync
       THEN /\ Begin(p, o, "done", [l EXCEPT !.retOk = FALSE])
            /\ UNCHANGED isCurrentlySyncing
       ELSE IF Len(Unsynced(pendingUpdates)) = 0
       THEN /\ Begin(p, o, "done", [l EXCEPT !.retOk = TRUE])
            /\ UNCHANGED isCurrentlySyncing
       ELSE /\ isCurrentlySyncing' = TRUE
            /\ Begin(p, o, "sync_put",
                     [l EXCEPT !.sent = LatestUpdate(Unsynced(pendingUpdates)),
                               !.nPut = 1])
    /\ UNCHANGED <<user, store, pairedTs, Server, pendingUpdates, nowMs, clock, acked, lastQueued>>

\* a PUT whose body is read from the queue when the request is answered
SyncPutOkSendingCurrent(p) ==
    /\ At(p, "sync_put")
    /\ srvUser.updated_at < MaxVer
    /\ srvUser' = ServerApplyUpdate(srvUser, LatestUpdate(Unsynced(pendingUpdates)).data)
    /\ acked' = acked \cup {loc[p].sent.timestamp}
    /\ Goto(p, "cud_saveData",
            [loc[p] EXCEPT !.wbData = UserPayload(srvUser'),
                           !.wbTs = SyncTimestamp(UserPayload(srvUser')),
                           !.fetch = "ok"])
    /\ UNCHANGED <<user, store, pairedTs, srvFin, pendingUpdates, isCurrentlySyncing, nowMs, clock, lastQueued>>

\* performSync: the PUT answers 200; handleSyncSuccess calls cacheUserData
SyncPutOk(p) ==
    /\ At(p, "sync_put")
    /\ srvUser.updated_at < MaxVer
    /\ srvUser' = ServerApplyUpdate(srvUser, loc[p].sent.data)
    /\ acked' = acked \cup {loc[p].sent.timestamp}
    /\ Goto(p, "cud_saveData",
            [loc[p] EXCEPT !.wbData = UserPayload(srvUser'),
                           !.wbTs = SyncTimestamp(UserPayload(srvUser')),
                           !.fetch = "ok"])
    /\ UNCHANGED <<user, store, pairedTs, srvFin, pendingUpdates, isCurrentlySyncing, nowMs, clock, lastQueued>>

SyncPutFailKeepingFlag(p) ==
    /\ At(p, "sync_put")
    /\ \E o \in {"fail", "throw"} :
           Goto(p, "done", [loc[p] EXCEPT !.retOk = FALSE, !.fetch = o])
    /\ UNCHANGED <<user, store, pairedTs, Server, pendingUpdates, isCurrentlySyncing,
                   nowMs, clock, acked, lastQueued>>

SyncPutFailMarkingSynced(p) ==
    /\ At(p, "sync_put")
    /\ \E o \in {"fail", "throw"} :
           Goto(p, "done", [loc[p] EXCEPT !.retOk = FALSE, !.fetch = o])
    /\ isCurrentlySyncing' = FALSE
    /\ pendingUpdates' = MarkAllSynced(pendingUpdates)
    /\ UNCHANGED <<user, store, pairedTs, Server, nowMs, clock, acked, lastQueued>>

\* performSync: the PUT answers a non-200 status or throws; finally clears the flag
SyncPutFail(p) ==
    /\ At(p, "sync_put")
    /\ \E o \in {"fail", "throw"} :
           Goto(p, "done", [loc[p] EXCEPT !.retOk = FALSE, !.fetch = o])
    /\ isCurrentlySyncing' = FALSE
    /\ UNCHANGED <<user, store, pairedTs, Server, pendingUpdates, nowMs, clock, acked, lastQueued>>

\* handleSyncSuccess: saveUserUpdatedAt(serverTimestamp), then every entry is
\* marked synced; performSync returns true through finally
SyncSaveUpdatedAt(p) ==
    /\ At(p, "hss_saveUpdatedAt")
    /\ store' = [store EXCEPT !.userUpdatedAt = loc[p].wbTs]
    /\ pendingUpdates' = MarkAllSynced(pendingUpdates)
    /\ isCurrentlySyncing' = FALSE
    /\ Goto(p, "done", [loc[p] EXCEPT !.retOk = TRUE])
    /\ UNCHANGED <<user, pairedTs, Server, nowMs, clock, acked, lastQueued>>

\* clearPendingUpdates(): synchronous, runs in any state, also while a
\* performSync is suspended at one of its awaits
clearPendingUpdates ==
    /\ pendingUpdates' = <<>>
    /\ isCurrentlySyncing' = FALSE
    /\ pendingUpdates # <<>> \/ isCurrentlySyncing
    /\ UNCHANGED <<user, store, pairedTs, Server, nowMs, clock, pc, op, loc, acked,
                   lastQueued, pre>>

(***************************************************************************)
(* UserCacheManager.cacheUserData                                          *)
(***************************************************************************)
\* where cacheUserData returns to: handleSyncSuccess, handlePhotoUploadFile,
\* or the getCachedDataWithPhoto of getUserDataWithCache / forceRefreshUserData
AfterCacheUserData(p) ==
    IF op[p] \in SyncOps THEN "hss_saveUpdatedAt"
    ELSE IF op[p] = "handlePhotoUploadFile" THEN "upl_saveUpdatedAt"
    ELSE "gcp_getBlob"

\* where fetchAndCachePhotoBlob returns to: cacheUserData, or
\* handlePhotoUploadFile when it called it itself
AfterPhoto(p) ==
    IF op[p] = "handlePhotoUploadFile" /\ loc[p].stage = 1
    THEN "upl_getBlob"
    ELSE "cud_saveUpdatedAt"

\* saveUserData: Preferences.set(USER_DATA_KEY, JSON.stringify(userData))
CudSaveData(p) ==
    /\ At(p, "cud_saveData")
    /\ store' = [store EXCEPT !.userData = JSONstringify(loc[p].wbData)]
    /\ pairedTs' = loc[p].wbTs
    /\ Goto(p, "cud_saveTs", loc[p])
    /\ UNCHANGED <<user, Server, SyncState, clock>>

\* saveUserData: Preferences.set(USER_UPDATED_AT_KEY, timestamp); then
\* cacheUserData goes on to the photo when the record has one
CudSaveTs(p) ==
    /\ At(p, "cud_saveTs")
    /\ store' = [store EXCEPT !.userUpdatedAt = loc[p].wbTs]
    /\ Goto(p, IF loc[p].wbData.photo # NoTs THEN "sfp_getBlob" ELSE "cud_saveUpdatedAt",
            loc[p])
    /\ UNCHANGED <<user, pairedTs, Server, SyncState, clock>>

\* shouldFetchPhoto: getUserPhotoBlob reads the blob
SfpGetBlob(p) ==
    /\ At(p, "sfp_getBlob")
    /\ Goto(p, "sfp_getTs", [loc[p] EXCEPT !.photoBlob = store.userPhoto])
    /\ UNCHANGED <<user, store, pairedTs, Server, SyncState, clock>>

\* shouldFetchPhoto: getUserPhotoBlob reads the marker; the decision follows
SfpGetTs(p) ==
    /\ At(p, "sfp_getTs")
    /\ IF shouldFetchPhoto(loc[p].photoBlob, store.userPhotoTs,
                           PhotoVersionOf(loc[p].wbData, loc[p].wbTs))
       THEN Goto(p, "photo_fetch", [loc[p] EXCEPT !.nPhoto = @ + 1])
       ELSE Goto(p, "cud_saveUpdatedAt", loc[p])
    /\ UNCHANGED <<user, store, pairedTs, Server, SyncState, clock>>

\* fetchAndCachePhotoBlob: fetch(photoUrl) answers with the photo
PhotoFetchOk(p) ==
    /\ At(p, "photo_fetch")
    /\ Goto(p, "photo_saveBlob", [loc[p] EXCEPT !.photoContent = loc[p].wbData.photo])
    /\ UNCHANGED <<user, store, pairedTs, Server, SyncState, clock>>

\* fetchAndCachePhotoBlob: fetch fails or answers !ok; the error is swallowed
PhotoFetchFail(p) ==
    /\ At(p, "photo_fetch")
    /\ Goto(p, AfterPhoto(p), loc[p])
    /\ UNCHANGED <<user, store, pairedTs, Server, SyncState, clock>>

\* saveUserPhotoBlob: Preferences.set(USER_PHOTO_KEY, photoBlob)
PhotoSaveBlob(p) ==
    /\ At(p, "photo_saveBlob")
    /\ store' = [store EXCEPT !.userPhoto = loc[p].photoContent]
    /\ Goto(p, "photo_saveTs", loc[p])
    /\ UNCHANGED <<user, pairedTs, Server, SyncState, clock>>

\* saveUserPhotoBlob: Preferences.set(USER_PHOTO_KEY_timestamp, timestamp)
PhotoSaveTs(p) ==
    /\ At(p, "photo_saveTs")
    /\ store' = [store EXCEPT
                    !.userPhotoTs = PhotoVersionOf(loc[p].wbData, loc[p].wbTs)]
    /\ Goto(p, AfterPhoto(p), loc[p])
    /\ UNCHANGED <<user, pairedTs, Server, SyncState, clock>>

\* cacheUserData: saveUserUpdatedAt(cacheTimestamp), then back to the caller
CudSaveUpdatedAt(p) ==
    /\ At(p, "cud_saveUpdatedAt")
    /\ store' = [store EXCEPT !.userUpdatedAt = loc[p].wbTs]
    /\ Goto(p, AfterCacheUserData(p), loc[p])
    /\ UNCHANGED <<user, pairedTs, Server, SyncState, clock>>

(***************************************************************************)
(* UserCacheManager.checkUserUpdateStatus and getUserDataWithCache         *)
(***************************************************************************)
UserOps == {"checkUserUpdateStatus", "getUserDataWithCache"}

\* the UserUpdateStatus built from the locals
UserStatus(l) ==
    [shouldUpdate |-> l.shouldUpdate, cachedData |-> l.cachedData,
     serverTimestamp |-> l.serverTimestamp]

\* both operations start with the await of ApiClient.getUserProfileTimestamp
CallUser(p, o) ==
    /\ CanStart(p)
    /\ Begin(p, o, "cus_probe", [InitLoc EXCEPT !.nProbe = 1])
    /\ UNCHANGED <<user, store, pairedTs, Server, SyncState, clock>>

\* checkUserUpdateStatus: the probe answers 200 with the server's updated_at
CusProbeOk(p) ==
    /\ At(p, "cus_probe")
    /\ Goto(p, "cus_getTs",
            [loc[p] EXCEPT !.serverTimestamp = srvUser.updated_at, !.probe = "ok"])
    /\ UNCHANGED <<user, store, pairedTs, Server, SyncState, clock>>

\* checkUserUpdateStatus: the probe answers a non-200 status or throws
CusProbeFail(p) ==
    /\ At(p, "cus_probe")
    /\ \E o \in {"fail", "throw"} : Goto(p, "cus_errData", [loc[p] EXCEPT !.probe = o])
    /\ UNCHANGED <<user, store, pairedTs, Server, SyncState, clock>>

\* checkUserUpdateStatus: getUserUpdatedAt
CusGetTs(p) ==
    /\ At(p, "cus_getTs")
    /\ Goto(p, "cus_getData", [loc[p] EXCEPT !.cachedTimestamp = store.userUpdatedAt])
    /\ UNCHANGED <<user, store, pairedTs, Server, SyncState, clock>>

\* a getUserDataWithCache that fetches on shouldUpdate alone
AfterUserStatusByStatusOnly(p, l) ==
    IF op[p] = "checkUserUpdateStatus"
    THEN Goto(p, "done", [l EXCEPT !.ret = UserStatus(l)])
    ELSE IF l.shouldUpdate
    THEN Goto(p, "guc_fetch", [l EXCEPT !.nFull = @ + 1])
    ELSE Goto(p, "gcp_getBlob", [l EXCEPT !.ret = l.cachedData])

\* what follows the status: checkUserUpdateStatus returns it;
\* getUserDataWithCache fetches (await getUserProfile) or serves the cache
AfterUserStatus(p, l) ==
    IF op[p] = "checkUserUpdateStatus"
    THEN Goto(p, "done", [l EXCEPT !.ret = UserStatus(l)])
    ELSE IF l.shouldUpdate \/ l.cachedData = Null
    THEN Goto(p, "guc_fetch", [l EXCEPT !.nFull = @ + 1])
    ELSE Goto(p, "gcp_getBlob", [l EXCEPT !.ret = l.cachedData])

\* checkUserUpdateStatus: getUserData after a 200 probe, and the decision
CusGetData(p) ==
    /\ At(p, "cus_getData")
    /\ LET cachedData == ParseUserData(store.userData) IN
       AfterUserStatus(p,
           [loc[p] EXCEPT
               !.cachedData = cachedData,
               !.cachedTimestamp = NoTs,   \* not read again
               !.shouldUpdate = UserShouldUpdate(cachedData, loc[p].cachedTimestamp,
                                                 loc[p].serverTimestamp)])
    /\ UNCHANGED <<user, store, pairedTs, Server, SyncState, clock>>

\* checkUserUpdateStatus: getUserData after a failed probe (status branch or catch)
CusErrData(p) ==
    /\ At(p, "cus_errData")
    /\ AfterUserStatus(p, FailSoft(loc[p], ParseUserData(store.userData)))
    /\ UNCHANGED <<user, store, pairedTs, Server, SyncState, clock>>

\* getCachedDataWithPhoto(data): null is returned at once, anything else after
\* the read of the cached blob
ServeWithPhoto(p, l, data) ==
    IF data = Null
    THEN Goto(p, "done", [l EXCEPT !.ret = Null])
    ELSE Goto(p, "gcp_getBlob", [l EXCEPT !.ret = data])

\* getUserDataWithCache: getUserProfile answers 200; cacheUserData is called
GucFetchOk(p) ==
    /\ At(p, "guc_fetch")
    /\ Goto(p, "cud_saveData",
            [loc[p] EXCEPT !.wbData = UserPayload(srvUser),
                           !.wbTs = FreshTimestamp(loc[p].serverTimestamp, clock),
                           !.ret = UserPayload(srvUser),
                           !.cachedData = Null,   \* not read again
                           !.fetch = "ok"])
    /\ clock' = IF loc[p].serverTimestamp = NoTs THEN clock + 1 ELSE clock
    /\ UNCHANGED <<user, store, pairedTs, Server, SyncState>>

\* a non-200 answer after which nothing is served
GucFetchFailServingNull(p) ==
    /\ At(p, "guc_fetch")
    /\ Goto(p, "done", [loc[p] EXCEPT !.fetch = "fail", !.ret = Null])
    /\ UNCHANGED <<user, store, pairedTs, Server, SyncState, clock>>

\* getUserDataWithCache: getUserProfile answers a non-200 status
GucFetchFail(p) ==
    /\ At(p, "guc_fetch")
    /\ ServeWithPhoto(p, [loc[p] EXCEPT !.fetch = "fail"], loc[p].cachedData)
    /\ UNCHANGED <<user, store, pairedTs, Server, SyncState, clock>>

\* getUserDataWithCache: getUserProfile throws; the catch block awaits getUserData
GucFetchThrow(p) ==
    /\ At(p, "guc_fetch")
    /\ Goto(p, "guc_catchData", [loc[p] EXCEPT !.fetch = "throw"])
    /\ UNCHANGED <<user, store, pairedTs, Server, SyncState, clock>>

\* getUserDataWithCache, catch block: getUserData, then getCachedDataWithPhoto
GucCatchData(p) ==
    /\ At(p, "guc_catchData")
    /\ ServeWithPhoto(p, loc[p], ParseUserData(store.userData))
    /\ UNCHANGED <<user, store, pairedTs, Server, SyncState, clock>>

\* getCachedDataWithPhoto: getCachedPhotoDataUrl reads the blob; the call returns
GcpGetBlob(p) ==
    /\ At(p, "gcp_getBlob")
    /\ Goto(p, "done", [loc[p] EXCEPT !.ret = WithPhoto(loc[p].ret, store.userPhoto)])
    /\ UNCHANGED <<user, store, pairedTs, Server, SyncState, clock>>

(***************************************************************************)
(* Remote Data Service (external): finance data                            *)
(***************************************************************************)
\* GET /api/entries/search at finance version v
TransactionsAt(v) == [i \in 1..v |-> [id |-> i]]

\* GET /api/accounts/summary at finance version v: accounts with balances
\* (none yet at version 1)
AccountsAt(v) == [i \in 1..(v - 1) |-> [id |-> i, balance |-> 10 * v]]

(***************************************************************************)
(* FinancialCacheManager: decisions and stored forms                       *)
(***************************************************************************)
\* account.balance !== undefined
HasBalance(account) == "balance" \in DOMAIN account

\* getFinanceCache: value ? JSON.parse(value) : null, for a timestamp
ParseFinanceTs(cell) == IF cell = NoValue THEN NoTs ELSE JSONparse(cell)

\* getCachedFinanceData: getFinanceCache(FINANCE_DATA_KEY), null when
\* JSON.parse throws (the catch of getCachedFinanceData)
ParseFinanceData(cell) ==
    IF cell = NoValue \/ cell = Corrupt THEN Null ELSE JSONparse(cell)

\* cacheFinanceData: the CachedFinanceData object it stores
FinanceBundle(transactions, accounts, cacheTimestamp) ==
    [transactions |-> transactions, accounts |-> accounts,
     accountsWithBalances |-> accounts,
     timestamp |-> cacheTimestamp, balanceTimestamp |-> cacheTimestamp]

AccountsAllHaveBalance(accounts) ==
    \A i \in 1..Len(accounts) : HasBalance(accounts[i])

\* determineShouldUpdate: accountsHaveBalance
AccountsHaveBalance(accounts) ==
    \/ Len(accounts) = 0
    \/ \E i \in 1..Len(accounts) : HasBalance(accounts[i])

\* determineShouldUpdate
determineShouldUpdate(cachedData, cachedTimestamp, serverTimestamp) ==
    IF cachedData = Null \/ cachedTimestamp = NoTs THEN TRUE
    ELSE IF ~AccountsHaveBalance(cachedData.accounts) THEN TRUE
    ELSE IF serverTimestamp # cachedTimestamp THEN TRUE
    ELSE FALSE

\* { transactions, accounts } of a bundle; getFallbackFinanceData gives [] for
\* a missing bundle
FinanceView(cachedData) ==
    IF cachedData = Null
    THEN [transactions |-> <<>>, accounts |-> <<>>]
    ELSE [transactions |-> cachedData.transactions, accounts |-> cachedData.accounts]

(***************************************************************************)
(* FinancialCacheManager.checkFinanceUpdateStatus, getFinanceDataWithCache *)
(***************************************************************************)
FinanceOps == {"checkFinanceUpdateStatus", "getFinanceDataWithCache"}

\* both operations start with the await of ApiClient.getFinanceTimestamp
CallFinance(p, o) ==
    /\ CanStart(p)
    /\ Begin(p, o, "cfs_probe", [InitLoc EXCEPT !.nProbe = 1])
    /\ UNCHANGED <<user, store, pairedTs, Server, SyncState, clock>>

\* checkFinanceUpdateStatus: the probe answers 200 with last_updated
CfsProbeOk(p) ==
    /\ At(p, "cfs_probe")
    /\ Goto(p, "cfs_getTs", [loc[p] EXCEPT !.serverTimestamp = srvFin, !.probe = "ok"])
    /\ UNCHANGED <<user, store, pairedTs, Server, SyncState, clock>>

\* checkFinanceUpdateStatus: the probe answers a non-200 status or throws
CfsProbeFail(p) ==
    /\ At(p, "cfs_probe")
    /\ \E o \in {"fail", "throw"} : Goto(p, "cfs_errData", [loc[p] EXCEPT !.probe = o])
    /\ UNCHANGED <<user, store, pairedTs, Server, SyncState, clock>>

\* checkFinanceUpdateStatus: getFinanceCache(FINANCE_TIMESTAMP_KEY); a stored
\* string that does not parse makes JSON.parse throw into the catch block
CfsGetTs(p) ==
    /\ At(p, "cfs_getTs")
    /\ IF store.financeTs = Corrupt
       THEN Goto(p, "cfs_errData", loc[p])
       ELSE Goto(p, "cfs_getData",
                 [loc[p] EXCEPT !.cachedTimestamp = ParseFinanceTs(store.financeTs)])
    /\ UNCHANGED <<user, store, pairedTs, Server, SyncState, clock>>

\* what follows the status: checkFinanceUpdateStatus returns it;
\* getFinanceDataWithCache calls fetchAndCacheFinanceData (Promise.all of the
\* two requests) or returns the cached transactions and accounts
AfterFinanceStatus(p, l) ==
    IF op[p] = "checkFinanceUpdateStatus"
    THEN Goto(p, "done", [l EXCEPT !.ret = UserStatus(l)])
    ELSE IF op[p] = "getAccountsWithCachedBalances"
    THEN Goto(p, "gab_fetch", [l EXCEPT !.nFull = @ + 1, !.cachedData = Null])
    ELSE IF op[p] = "backgroundRefresh" /\ ~l.shouldUpdate
    THEN Goto(p, "done", l)
    ELSE IF l.shouldUpdate \/ l.cachedData = Null
    THEN Goto(p, "fcf_fetch", [l EXCEPT !.nFull = @ + 1, !.cachedData = Null])
    ELSE Goto(p, "done", [l EXCEPT !.ret = FinanceView(l.cachedData)])

\* checkFinanceUpdateStatus: getCachedFinanceData after a 200 probe, and the
\* decision
CfsGetData(p) ==
    /\ At(p, "cfs_getData")
    /\ LET cachedData == ParseFinanceData(store.financeData) IN
       AfterFinanceStatus(p,
           [loc[p] EXCEPT
               !.cachedData = cachedData,
               !.cachedTimestamp = NoTs,   \* not read again
               !.shouldUpdate = determineShouldUpdate(cachedData, loc[p].cachedTimestamp,
                                                      loc[p].serverTimestamp)])
    /\ UNCHANGED <<user, store, pairedTs, Server, SyncState, clock>>

\* checkFinanceUpdateStatus: getCachedFinanceData after a failed probe
CfsErrData(p) ==
    /\ At(p, "cfs_errData")
    /\ AfterFinanceStatus(p, FailSoft(loc[p], ParseFinanceData(store.financeData)))
    /\ UNCHANGED <<user, store, pairedTs, Server, SyncState, clock>>

\* the two requests did not both answer 200: getFinanceDataWithCache reads the
\* fallback and forceRefreshFinanceData returns null.  In the refresh that
\* getAccountsWithCachedBalances left running, fetchAndCacheFinanceData is
\* called without await or return inside the then callback: with a status
\* other than 200 it ends, and when a request throws its promise rejects
\* with nothing to catch it.
FinanceFetchFailed(p, l) ==
    IF op[p] = "forceRefreshFinanceData" THEN Goto(p, "done", [l EXCEPT !.ret = Null])
    ELSE IF op[p] = "backgroundRefresh"
    THEN Goto(p, IF l.fetch = "throw" THEN "unhandled" ELSE "done", l)
    ELSE Goto(p, "fb_getData", l)

\* fetchAndCacheFinanceData once a response is in: with both in and both 200
\* cacheFinanceData is called, with both in and one not 200 the fallback is read
AfterFinanceResponse(p, l) ==
    IF l.txResp = Null \/ l.accResp = Null
    THEN /\ Goto(p, "fcf_fetch", l)
         /\ UNCHANGED clock
    ELSE IF l.txResp.status = 200 /\ l.accResp.status = 200
    THEN /\ Goto(p, "cfd_saveData",
                 [l EXCEPT !.wbData = FinanceBundle(l.txResp.data, l.accResp.data,
                                          FreshTimestamp(l.serverTimestamp, clock)),
                           !.wbTs = FreshTimestamp(l.serverTimestamp, clock),
                           !.ret = [transactions |-> l.txResp.data,
                                    accounts |-> l.accResp.data],
                           !.txResp = Null, !.accResp = Null,   \* not read again
                           !.fetch = "ok"])
         /\ clock' = IF l.serverTimestamp = NoTs THEN clock + 1 ELSE clock
    ELSE /\ FinanceFetchFailed(p, [l EXCEPT !.fetch = "fail",
                                             !.txResp = Null, !.accResp = Null])
         /\ UNCHANGED clock

\* fetchAndCacheFinanceData: searchTransactions answers (200 or another status)
FcfTxResponse(p) ==
    /\ At(p, "fcf_fetch")
    /\ loc[p].txResp = Null
    /\ \E r \in {[status |-> 200, data |-> TransactionsAt(srvFin)],
                 [status |-> 500, data |-> <<>>]} :
           AfterFinanceResponse(p, [loc[p] EXCEPT !.txResp = r])
    /\ UNCHANGED <<user, store, pairedTs, Server, SyncState>>

\* fetchAndCacheFinanceData: getAccountsSummary answers (200 or another status)
FcfAccResponse(p) ==
    /\ At(p, "fcf_fetch")
    /\ loc[p].accResp = Null
    /\ \E r \in {[status |-> 200, data |-> AccountsAt(srvFin)],
                 [status |-> 500, data |-> <<>>]} :
           AfterFinanceResponse(p, [loc[p] EXCEPT !.accResp = r])
    /\ UNCHANGED <<user, store, pairedTs, Server, SyncState>>

\* fetchAndCacheFinanceData: one of the two requests throws; Promise.all
\* rejects and the catch of getFinanceDataWithCache reads the fallback
FcfThrow(p) ==
    /\ At(p, "fcf_fetch")
    /\ FinanceFetchFailed(p, [loc[p] EXCEPT !.fetch = "throw",
                                             !.txResp = Null, !.accResp = Null])
    /\ UNCHANGED <<user, store, pairedTs, Server, SyncState, clock>>

\* cacheFinanceData: saveFinanceCache(FINANCE_DATA_KEY, financeData)
CfdSaveData(p) ==
    /\ At(p, "cfd_saveData")
    /\ store' = [store EXCEPT !.financeData = JSONstringify(loc[p].wbData)]
    /\ Goto(p, "cfd_saveTs", loc[p])
    /\ UNCHANGED <<user, pairedTs, Server, SyncState, clock>>

\* cacheFinanceData: saveFinanceCache(FINANCE_TIMESTAMP_KEY, cacheTimestamp);
\* fetchAndCacheFinanceData returns { transactions, accounts }
CfdSaveTs(p) ==
    /\ At(p, "cfd_saveTs")
    /\ store' = [store EXCEPT !.financeTs = JSONstringify(loc[p].wbTs)]
    /\ Goto(p, "done", loc[p])
    /\ UNCHANGED <<user, pairedTs, Server, SyncState, clock>>

\* getFallbackFinanceData: getCachedFinanceData
FbGetData(p) ==
    /\ At(p, "fb_getData")
    /\ LET fallbackData == FinanceView(ParseFinanceData(store.financeData)) IN
       Goto(p, "done",
            [loc[p] EXCEPT !.ret = IF op[p] = "getAccountsWithCachedBalances"
                                   THEN fallbackData.accounts ELSE fallbackData])
    /\ UNCHANGED <<user, store, pairedTs, Server, SyncState, clock>>

(***************************************************************************)
(* FinancialCacheManager.forceRefreshFinanceData, clearAllFinanceCache and *)
(* getAccountsWithCachedBalances                                           *)
(***************************************************************************)
\* forceRefreshFinanceData: Promise.all of searchTransactions and
\* getAccountsSummary, then cacheFinanceData with new Date().toISOString()
CallForceFinance(p) ==
    /\ CanStart(p)
    /\ Begin(p, "forceRefreshFinanceData", "fcf_fetch", [InitLoc EXCEPT !.nFull = 1])
    /\ UNCHANGED <<user, store, pairedTs, Server, SyncState, clock>>

\* clearAllFinanceCache: two removeFinanceCache calls in a row
CallClearFinance(p) ==
    /\ CanStart(p)
    /\ Begin(p, "clearAllFinanceCache", "cfc_data", InitLoc)
    /\ UNCHANGED <<user, store, pairedTs, Server, SyncState, clock>>

\* clearAllFinanceCache: removeFinanceCache(FINANCE_DATA_KEY)
CfcData(p) ==
    /\ At(p, "cfc_data")
    /\ store' = [store EXCEPT !.financeData = NoValue]
    /\ Goto(p, "cfc_ts", loc[p])
    /\ UNCHANGED <<user, pairedTs, Server, SyncState, clock>>

\* clearAllFinanceCache: removeFinanceCache(FINANCE_TIMESTAMP_KEY)
CfcTs(p) ==
    /\ At(p, "cfc_ts")
    /\ store' = [store EXCEPT !.financeTs = NoValue]
    /\ Goto(p, "done", loc[p])
    /\ UNCHANGED <<user, pairedTs, Server, SyncState, clock>>

\* getAccountsWithCachedBalances starts with the await of getCachedFinanceData
CallAccounts(p) ==
    /\ CanStart(p)
    /\ Begin(p, "getAccountsWithCachedBalances", "gab_getData", InitLoc)
    /\ UNCHANGED <<user, store, pairedTs, Server, SyncState, clock>>

\* the slot of the refresh getAccountsWithCachedBalances leaves running
Background == "p2"

\* getAccountsWithCachedBalances awaiting the status check whatever is cached
GabGetDataAwaitingStatus(p) ==
    /\ At(p, "gab_getData")
    /\ Goto(p, "cfs_probe", [loc[p] EXCEPT !.held = ParseFinanceData(store.financeData),
                                           !.nProbe = 1])
    /\ UNCHANGED <<user, store, pairedTs, Server, SyncState, clock>>

\* getAccountsWithCachedBalances: with cached accountsWithBalances the status
\* check is started without being awaited and the cached accounts are
\* returned; without them the status check is awaited
GabGetData(p) ==
    /\ At(p, "gab_getData")
    /\ LET cachedData == ParseFinanceData(store.financeData) IN
       IF cachedData # Null /\ Len(cachedData.accountsWithBalances) > 0
       THEN /\ pc[Background] = "idle"
            /\ pc' = [pc EXCEPT ![p] = "done", ![Background] = "cfs_probe"]
            /\ op' = [op EXCEPT ![Background] = "backgroundRefresh"]
            /\ loc' = [loc EXCEPT ![p] = [loc[p] EXCEPT !.ret = cachedData.accountsWithBalances],
                                  ![Background] = [InitLoc EXCEPT !.nProbe = 1]]
            /\ UNCHANGED pre
       ELSE Goto(p, "cfs_probe", [loc[p] EXCEPT !.held = cachedData, !.nProbe = 1])
    /\ UNCHANGED <<user, store, pairedTs, Server, SyncState, clock>>

\* getAccountsWithCachedBalances: getAccountsSummary answers 200;
\* cacheFinanceData(cachedData?.transactions || [], accounts,
\* updateStatus.serverTimestamp || undefined)
GabFetchOk(p) ==
    /\ At(p, "gab_fetch")
    /\ LET transactions == IF loc[p].held = Null THEN <<>> ELSE loc[p].held.transactions
           cacheTimestamp == FreshTimestamp(loc[p].serverTimestamp, clock)
       IN  Goto(p, "cfd_saveData",
                [loc[p] EXCEPT
                    !.wbData = FinanceBundle(transactions, AccountsAt(srvFin), cacheTimestamp),
                    !.wbTs = cacheTimestamp,
                    !.ret = AccountsAt(srvFin),
                    !.held = Null,   \* not read again
                    !.fetch = "ok"])
    /\ clock' = IF loc[p].serverTimestamp = NoTs THEN clock + 1 ELSE clock
    /\ UNCHANGED <<user, store, pairedTs, Server, SyncState>>

\* getAccountsWithCachedBalances: getAccountsSummary answers another status;
\* cachedData?.accounts || [] is returned
GabFetchFail(p) ==
    /\ At(p, "gab_fetch")
    /\ Goto(p, "done",
            [loc[p] EXCEPT !.ret = FinanceView(loc[p].held).accounts,
                           !.held = Null, !.fetch = "fail"])
    /\ UNCHANGED <<user, store, pairedTs, Server, SyncState, clock>>

\* getAccountsWithCachedBalances: getAccountsSummary throws; the catch block
\* awaits getFallbackFinanceData
GabFetchThrow(p) ==
    /\ At(p, "gab_fetch")
    /\ Goto(p, "fb_getData", [loc[p] EXCEPT !.held = Null, !.fetch = "throw"])
    /\ UNCHANGED <<user, store, pairedTs, Server, SyncState, clock>>

(***************************************************************************)
(* App: handleUserUpdate and the reconciliation pass (performBackgroundSync) *)
(***************************************************************************)
\* handleUserUpdate(updatedUser): setUser, then BackgroundSync.queueUserUpdate
handleUserUpdate(n) ==
    /\ nowMs < MaxUpdates
    /\ user' = [user EXCEPT !.name = n]
    /\ nowMs' = nowMs + 1
    /\ pendingUpdates' =
           Enqueue(pendingUpdates,
                   [data |-> [name |-> n], timestamp |-> nowMs + 1, synced |-> FALSE])
    /\ lastQueued' = [name |-> n]
    /\ UNCHANGED <<store, pairedTs, Server, isCurrentlySyncing, clock, pc, op, loc, acked, pre>>

\* the timestamp of the latest unsynced entry, 0 when there is none
PendingEdit ==
    IF hasPendingUpdates THEN LatestUpdate(Unsynced(pendingUpdates)).timestamp ELSE 0

\* the next call of a pass: the slot goes on to the call's first await
PassCall(p, o, l) ==
    /\ pc' = [pc EXCEPT ![p] = "cus_probe"]
    /\ op' = [op EXCEPT ![p] = o]
    /\ loc' = [loc EXCEPT ![p] = l]
    /\ UNCHANGED pre

\* the pass is over
PassEnd(p) ==
    /\ pc' = [pc EXCEPT ![p] = "idle"]
    /\ op' = [op EXCEPT ![p] = "none"]
    /\ loc' = [loc EXCEPT ![p] = InitLoc]
    /\ UNCHANGED pre

\* a pass that goes to the staleness probe at once, pending updates or not
PbsStartProbingFirst(p) == CallUser(p, "checkUserUpdateStatus")

\* navigateToScreen -> performBackgroundSync: with pending updates the flush
\* (forceSyncNow) comes first, else checkAndSyncServerUpdates starts at once
\* with checkUserUpdateStatus
PbsStart(p) ==
    IF getPendingUpdateCount > 0
    THEN CallSync(p, "forceSyncNow")
    ELSE CallUser(p, "checkUserUpdateStatus")

\* the flush of an overlapping pass: performBackgroundSync up to forceSyncNow
PbsFlush(p) == getPendingUpdateCount > 0 /\ CallSync(p, "forceSyncNow")

\* performBackgroundSync: forceSyncNow has returned (its result is not looked
\* at); checkAndSyncServerUpdates awaits checkUserUpdateStatus
PbsAfterFlush(p) ==
    /\ At(p, "done") /\ op[p] = "forceSyncNow"
    /\ PassCall(p, "checkUserUpdateStatus",
                [InitLoc EXCEPT !.nProbe = 1, !.edit = PendingEdit])
    /\ UNCHANGED <<user, store, pairedTs, Server, SyncState, clock>>

\* checkAndSyncServerUpdates: with shouldUpdate it awaits getUserDataWithCache
PbsAfterStatus(p) ==
    /\ At(p, "done") /\ op[p] = "checkUserUpdateStatus"
    /\ IF loc[p].ret.shouldUpdate
       THEN PassCall(p, "getUserDataWithCache",
                     [InitLoc EXCEPT !.nProbe = 1, !.edit = loc[p].edit])
       ELSE PassEnd(p)
    /\ UNCHANGED <<user, store, pairedTs, Server, SyncState, clock>>

\* checkAndSyncServerUpdates: updateUserFromServerData(freshData) when
\* freshData is not null; setUser when the JSON differs
PbsAfterRefresh(p) ==
    /\ At(p, "done") /\ op[p] = "getUserDataWithCache"
    /\ user' = IF loc[p].ret # Null /\ loc[p].ret # user THEN loc[p].ret ELSE user
    /\ PassEnd(p)
    /\ UNCHANGED <<store, pairedTs, Server, SyncState, clock>>

(***************************************************************************)
(* UserCacheManager.forceRefreshUserData and clearCache                    *)
(***************************************************************************)
\* a forceRefreshUserData that goes through the staleness check first
CallForceUserThroughStatus(p) ==
    /\ CanStart(p)
    /\ Begin(p, "forceRefreshUserData", "cus_probe", [InitLoc EXCEPT !.nProbe = 1])
    /\ UNCHANGED <<user, store, pairedTs, Server, SyncState, clock>>

\* forceRefreshUserData starts with the await of ApiClient.getUserProfile
CallForceUser(p) ==
    /\ CanStart(p)
    /\ Begin(p, "forceRefreshUserData", "fru_fetch", [InitLoc EXCEPT !.nFull = 1])
    /\ UNCHANGED <<user, store, pairedTs, Server, SyncState, clock>>

\* forceRefreshUserData: getUserProfile answers 200; cacheUserData is called
\* with updated_at || created_at
FruFetchOk(p) ==
    /\ At(p, "fru_fetch")
    /\ Goto(p, "cud_saveData",
            [loc[p] EXCEPT !.wbData = UserPayload(srvUser),
                           !.wbTs = SyncTimestamp(UserPayload(srvUser)),
                           !.ret = UserPayload(srvUser),
                           !.fetch = "ok"])
    /\ UNCHANGED <<user, store, pairedTs, Server, SyncState, clock>>

\* forceRefreshUserData: getUserProfile answers a non-200 status or throws;
\* null is returned
FruFetchFail(p) ==
    /\ At(p, "fru_fetch")
    /\ \E o \in {"fail", "throw"} :
           Goto(p, "done", [loc[p] EXCEPT !.fetch = o, !.ret = Null])
    /\ UNCHANGED <<user, store, pairedTs, Server, SyncState, clock>>

\* clearCache -> clearUserCache: four Preferences.remove calls in a row
CallClearUser(p) ==
    /\ CanStart(p)
    /\ Begin(p, "clearCache", "clr_photo", InitLoc)
    /\ UNCHANGED <<user, store, pairedTs, Server, SyncState, clock>>

\* clearUserCache: Preferences.remove(USER_PHOTO_KEY)
ClrPhoto(p) ==
    /\ At(p, "clr_photo")
    /\ store' = [store EXCEPT !.userPhoto = NoTs]
    /\ Goto(p, "clr_photoTs", loc[p])
    /\ UNCHANGED <<user, pairedTs, Server, SyncState, clock>>

\* clearUserCache: Preferences.remove(USER_PHOTO_KEY_timestamp)
ClrPhotoTs(p) ==
    /\ At(p, "clr_photoTs")
    /\ store' = [store EXCEPT !.userPhotoTs = NoTs]
    /\ Goto(p, "clr_data", loc[p])
    /\ UNCHANGED <<user, pairedTs, Server, SyncState, clock>>

\* clearUserCache: Preferences.remove(USER_DATA_KEY)
ClrData(p) ==
    /\ At(p, "clr_data")
    /\ store' = [store EXCEPT !.userData = NoValue]
    /\ Goto(p, "clr_ts", loc[p])
    /\ UNCHANGED <<user, pairedTs, Server, SyncState, clock>>

\* clearUserCache: Preferences.remove(USER_UPDATED_AT_KEY); clearCache returns
ClrTs(p) ==
    /\ At(p, "clr_ts")
    /\ store' = [store EXCEPT !.userUpdatedAt = NoTs]
    /\ Goto(p, "done", loc[p])
    /\ UNCHANGED <<user, pairedTs, Server, SyncState, clock>>

(***************************************************************************)
(* UserCacheManager.updateCachedPhoto and ProfileScreen's                  *)
(* handlePhotoUploadFile                                                   *)
(***************************************************************************)
PhotoOps == {"updateCachedPhoto", "handlePhotoUploadFile"}

\* the content of the file the user picked
TempPhoto == 9

\* values of Date.now() up to the end of a photo upload, which queues two
\* entries
MaxStamps == 3

\* URL.createObjectURL(file): a blob: URL (photo URLs of the server are the
\* positive numbers)
TempUrl == 0 - TempPhoto

\* updateCachedPhoto(tempUrl) up to the await of getUserPhotoBlob.
\* handlePhotoUploadFile first calls onUserUpdate(optimisticUser), which is
\* handleUserUpdate: setUser and queueUserUpdate; `user` stays the one of the
\* render the handler was created in.
CallPhoto(p, o) ==
    /\ CanStart(p)
    /\ Begin(p, o, "ucp_getBlob", [InitLoc EXCEPT !.held = user])
    /\ IF o = "handlePhotoUploadFile"
       THEN /\ nowMs + 2 <= MaxStamps
            /\ user' = [user EXCEPT !.photo = TempUrl]
            /\ nowMs' = nowMs + 1
            /\ pendingUpdates' =
                   Enqueue(pendingUpdates,
                           [data |-> [name |-> user.name], timestamp |-> nowMs + 1,
                            synced |-> FALSE])
            /\ lastQueued' = [name |-> user.name]
       ELSE UNCHANGED <<user, pendingUpdates, nowMs, lastQueued>>
    /\ UNCHANGED <<store, pairedTs, Server, isCurrentlySyncing, clock, acked>>

\* updateCachedPhoto: getUserPhotoBlob; timestamp = existingTimestamp ||
\* new Date().toISOString()
UcpGetBlob(p) ==
    /\ At(p, "ucp_getBlob")
    /\ Goto(p, "ucp_fetch",
            [loc[p] EXCEPT !.wbTs = IF store.userPhotoTs # NoTs
                                    THEN store.userPhotoTs ELSE ClientNow(clock)])
    /\ clock' = IF store.userPhotoTs # NoTs THEN clock ELSE clock + 1
    /\ UNCHANGED <<user, store, pairedTs, Server, SyncState>>

\* where updateCachedPhoto returns to
AfterUpdateCachedPhoto(p) ==
    IF op[p] = "updateCachedPhoto" THEN "done" ELSE "upl_request"

\* updateCachedPhoto: fetch(photoUrl) of the blob: URL and blobToBase64
UcpFetchOk(p) ==
    /\ At(p, "ucp_fetch")
    /\ Goto(p, "ucp_saveBlob", [loc[p] EXCEPT !.photoContent = TempPhoto])
    /\ UNCHANGED <<user, store, pairedTs, Server, SyncState, clock>>

\* updateCachedPhoto: the fetch of the blob: URL throws; the catch block ends
\* the call
UcpFetchThrow(p) ==
    /\ At(p, "ucp_fetch")
    /\ Goto(p, AfterUpdateCachedPhoto(p), loc[p])
    /\ UNCHANGED <<user, store, pairedTs, Server, SyncState, clock>>

\* saveUserPhotoBlob(base64Data, timestamp): Preferences.set(USER_PHOTO_KEY)
UcpSaveBlob(p) ==
    /\ At(p, "ucp_saveBlob")
    /\ store' = [store EXCEPT !.userPhoto = loc[p].photoContent]
    /\ Goto(p, "ucp_saveTs", loc[p])
    /\ UNCHANGED <<user, pairedTs, Server, SyncState, clock>>

\* an optimistic update that moves the marker on to the version the upload
\* is going to get
UcpSaveTsBumpingMarker(p) ==
    /\ At(p, "ucp_saveTs")
    /\ store' = [store EXCEPT !.userPhotoTs = srvUser.updated_at + 1]
    /\ Goto(p, "ucp_getData", loc[p])
    /\ UNCHANGED <<user, pairedTs, Server, SyncState, clock>>

\* saveUserPhotoBlob: Preferences.set(USER_PHOTO_KEY_timestamp, timestamp)
UcpSaveTs(p) ==
    /\ At(p, "ucp_saveTs")
    /\ store' = [store EXCEPT !.userPhotoTs = loc[p].wbTs]
    /\ Goto(p, "ucp_getData", loc[p])
    /\ UNCHANGED <<user, pairedTs, Server, SyncState, clock>>

\* updateCachedPhoto: getUserData; without a cached record the call is over
UcpGetData(p) ==
    /\ At(p, "ucp_getData")
    /\ IF ParseUserData(store.userData) = Null
       THEN Goto(p, AfterUpdateCachedPhoto(p), loc[p])
       ELSE Goto(p, "ucp_getUpdatedAt",
                 [loc[p] EXCEPT !.cachedData = ParseUserData(store.userData)])
    /\ UNCHANGED <<user, store, pairedTs, Server, SyncState, clock>>

\* updateCachedPhoto: getUserUpdatedAt
UcpGetUpdatedAt(p) ==
    /\ At(p, "ucp_getUpdatedAt")
    /\ Goto(p, "ucp_saveData", [loc[p] EXCEPT !.cachedTimestamp = store.userUpdatedAt])
    /\ UNCHANGED <<user, store, pairedTs, Server, SyncState, clock>>

\* saveUserData(updatedData, cachedTimestamp || timestamp)
UcpRecordTimestamp(l) ==
    IF l.cachedTimestamp # NoTs THEN l.cachedTimestamp ELSE l.wbTs

\* saveUserData: Preferences.set(USER_DATA_KEY, { ...userData, photo: photoUrl })
UcpSaveData(p) ==
    /\ At(p, "ucp_saveData")
    /\ store' = [store EXCEPT
                    !.userData = JSONstringify([loc[p].cachedData EXCEPT !.photo = TempUrl])]
    /\ pairedTs' = UcpRecordTimestamp(loc[p])
    /\ Goto(p, "ucp_saveDataTs", loc[p])
    /\ UNCHANGED <<user, Server, SyncState, clock>>

\* saveUserData: Preferences.set(USER_UPDATED_AT_KEY); updateCachedPhoto returns
UcpSaveDataTs(p) ==
    /\ At(p, "ucp_saveDataTs")
    /\ store' = [store EXCEPT !.userUpdatedAt = UcpRecordTimestamp(loc[p])]
    /\ Goto(p, AfterUpdateCachedPhoto(p),
            [loc[p] EXCEPT !.cachedData = Null, !.cachedTimestamp = NoTs])
    /\ UNCHANGED <<user, pairedTs, Server, SyncState, clock>>

\* POST /api/users/profile/photo applied by the server: a new photo URL and
\* a new updated_at
ServerApplyPhoto(s) ==
    [s EXCEPT !.photo = s.updated_at + 1, !.updated_at = s.updated_at + 1]

\* handlePhotoUploadFile: uploadProfilePhoto answers 200; the record given to
\* cacheUserData is { ...user, ...response.data, ...user, photo, updated_at }
UplRequestOk(p) ==
    /\ At(p, "upl_request")
    /\ srvUser.updated_at < MaxVer
    /\ srvUser' = ServerApplyPhoto(srvUser)
    /\ Goto(p, "cud_saveData",
            [loc[p] EXCEPT
                !.wbData = [loc[p].held EXCEPT !.photo = srvUser'.photo,
                                               !.updated_at = srvUser'.updated_at],
                !.wbTs = srvUser'.updated_at,
                !.fetch = "ok"])
    /\ UNCHANGED <<user, store, pairedTs, srvFin, SyncState, clock>>

\* handlePhotoUploadFile: the upload answers another status or throws; the
\* catch block awaits getUserDataWithCache
UplRequestFail(p) ==
    /\ At(p, "upl_request")
    /\ pc' = [pc EXCEPT ![p] = "cus_probe"]
    /\ op' = [op EXCEPT ![p] = "getUserDataWithCache"]
    /\ loc' = [loc EXCEPT ![p] = [InitLoc EXCEPT !.nProbe = 1, !.stage = 2]]
    /\ UNCHANGED <<user, store, pairedTs, Server, SyncState, clock, pre>>

\* handlePhotoUploadFile: saveUserUpdatedAt(serverTimestamp), then
\* fetchAndCachePhotoBlob(newPhotoUrl, serverTimestamp)
UplSaveUpdatedAt(p) ==
    /\ At(p, "upl_saveUpdatedAt")
    /\ store' = [store EXCEPT !.userUpdatedAt = loc[p].wbTs]
    /\ Goto(p, "photo_fetch", [loc[p] EXCEPT !.stage = 1, !.nPhoto = @ + 1])
    /\ UNCHANGED <<user, pairedTs, Server, SyncState, clock>>

\* handlePhotoUploadFile: getCachedPhotoDataUrl, onUserUpdate(finalUserData)
\* (setUser and queueUserUpdate), then syncIfPending, which finds the entry
\* just queued and is attemptSync
UplGetBlob(p) ==
    /\ At(p, "upl_getBlob")
    /\ user' = WithPhoto(loc[p].wbData, store.userPhoto)
    /\ nowMs' = nowMs + 1
    /\ pendingUpdates' =
           Enqueue(pendingUpdates,
                   [data |-> [name |-> loc[p].wbData.name], timestamp |-> nowMs + 1,
                    synced |-> FALSE])
    /\ lastQueued' = [name |-> loc[p].wbData.name]
    /\ op' = [op EXCEPT ![p] = "syncIfPending"]
    /\ IF ~shouldAttemptSync
       THEN /\ pc' = [pc EXCEPT ![p] = "done"]
            /\ loc' = [loc EXCEPT ![p] = [InitLoc EXCEPT !.retOk = FALSE]]
            /\ UNCHANGED isCurrentlySyncing
       ELSE /\ pc' = [pc EXCEPT ![p] = "sync_put"]
            /\ loc' = [loc EXCEPT ![p] =
                          [InitLoc EXCEPT !.sent = LatestUpdate(Unsynced(pendingUpdates')),
                                          !.nPut = 1]]
            /\ isCurrentlySyncing' = TRUE
    /\ UNCHANGED <<store, pairedTs, Server, clock, acked, pre>>

\* handlePhotoUploadFile: getUserDataWithCache has returned in the catch
\* block; onUserUpdate(cachedData) when there is a record
UplAfterRevert(p) ==
    /\ At(p, "done") /\ op[p] = "getUserDataWithCache" /\ loc[p].stage = 2
    /\ IF loc[p].ret # Null
       THEN /\ user' = loc[p].ret
            /\ nowMs' = nowMs + 1
            /\ pendingUpdates' =
                   Enqueue(pendingUpdates,
                           [data |-> [name |-> loc[p].ret.name], timestamp |-> nowMs + 1,
                            synced |-> FALSE])
            /\ lastQueued' = [name |-> loc[p].ret.name]
       ELSE UNCHANGED <<user, pendingUpdates, nowMs, lastQueued>>
    /\ PassEnd(p)
    /\ UNCHANGED <<store, pairedTs, Server, isCurrentlySyncing, clock, acked>>

\* the caller of a call that is not the inner call of a handler takes the
\* result
ReturnToCaller(p) ==
    /\ At(p, "done") /\ loc[p].stage # 2
    /\ pc' = [pc EXCEPT ![p] = "idle"]
    /\ op' = [op EXCEPT ![p] = "none"]
    /\ loc' = [loc EXCEPT ![p] = InitLoc]
    /\ pre' = IF pre = NoHistory THEN pre ELSE EmptyStore
    /\ UNCHANGED <<user, store, pairedTs, Server, SyncState, clock>>

(***************************************************************************)
(* The Key-Value Store failing: a Preferences call that throws             *)
(***************************************************************************)
\* Preferences calls per call that throw
MaxFaults == 2

\* the steps that await a Preferences call
PreferencesPcs ==
    {"cus_getTs", "cus_getData", "cus_errData", "guc_catchData",
     "cud_saveData", "cud_saveTs", "sfp_getBlob", "sfp_getTs",
     "photo_saveBlob", "photo_saveTs", "cud_saveUpdatedAt", "gcp_getBlob",
     "hss_saveUpdatedAt", "cfs_getTs", "cfs_getData", "cfs_errData",
     "cfd_saveData", "cfd_saveTs", "fb_getData", "gab_getData",
     "clr_photo", "clr_photoTs", "clr_data", "clr_ts", "cfc_data", "cfc_ts",
     "ucp_getBlob", "ucp_saveBlob", "ucp_saveTs", "ucp_getData",
     "ucp_getUpdatedAt", "ucp_saveData", "ucp_saveDataTs"}

\* try blocks in capacitorPreferences.ts only: the finance helpers
\* saveFinanceCache, getFinanceCache and removeFinanceCache have none
EnclosingTryInWrapperOnly(where) ==
    CASE where \in {"cus_getTs", "ucp_getUpdatedAt"} -> "getUserUpdatedAt"
      [] where \in {"cus_getData", "cus_errData", "guc_catchData", "ucp_getData"}
             -> "getUserData"
      [] where \in {"cud_saveData", "cud_saveTs", "ucp_saveData", "ucp_saveDataTs"}
             -> "saveUserData"
      [] where \in {"sfp_getBlob", "sfp_getTs", "gcp_getBlob", "ucp_getBlob"}
             -> "getUserPhotoBlob"
      [] where \in {"photo_saveBlob", "photo_saveTs", "ucp_saveBlob", "ucp_saveTs"}
             -> "saveUserPhotoBlob"
      [] where \in {"cud_saveUpdatedAt", "hss_saveUpdatedAt"} -> "saveUserUpdatedAt"
      [] where \in {"clr_photo", "clr_photoTs", "clr_data", "clr_ts"}
             -> "clearUserCache"
      [] OTHER -> "none"

\* the function whose try block catches what the Preferences call of a step
\* throws, "none" when the call is inside no try block
EnclosingTry(where) ==
    CASE where \in {"cus_getTs", "ucp_getUpdatedAt"} -> "getUserUpdatedAt"
      [] where \in {"cus_getData", "cus_errData", "guc_catchData", "ucp_getData"}
             -> "getUserData"
      [] where \in {"cud_saveData", "cud_saveTs", "ucp_saveData", "ucp_saveDataTs"}
             -> "saveUserData"
      [] where \in {"sfp_getBlob", "sfp_getTs", "gcp_getBlob", "ucp_getBlob"}
             -> "getUserPhotoBlob"
      [] where \in {"photo_saveBlob", "photo_saveTs", "ucp_saveBlob", "ucp_saveTs"}
             -> "saveUserPhotoBlob"
      [] where \in {"cud_saveUpdatedAt", "hss_saveUpdatedAt"} -> "saveUserUpdatedAt"
      [] where \in {"clr_photo", "clr_photoTs", "clr_data", "clr_ts"}
             -> "clearUserCache"
      [] where = "cfs_getTs" -> "checkFinanceUpdateStatus"
      [] where \in {"cfs_getData", "cfs_errData", "fb_getData", "gab_getData"}
             -> "getCachedFinanceData"
      [] where \in {"cfd_saveData", "cfd_saveTs"} -> "cacheFinanceData"
      [] where \in {"cfc_data", "cfc_ts"} -> "clearAllFinanceCache"
      [] OTHER -> "none"

\* The Preferences call a slot awaits throws.  A read that throws yields null
\* from its wrapper; a write that throws is skipped together with the writes
\* that follow it in the same try block; outside every try block the
\* operation rejects.
PreferencesFails(p) ==
    /\ pc[p] \in PreferencesPcs
    /\ loc[p].nFault < MaxFaults
    /\ LET l == [loc[p] EXCEPT !.nFault = @ + 1]
           w == pc[p]
           same == UNCHANGED <<pendingUpdates, isCurrentlySyncing, clock>>
       IN
       IF EnclosingTry(w) = "none" THEN Goto(p, "rejected", l) /\ same
       ELSE IF w = "cus_getTs" THEN Goto(p, "cus_getData", l) /\ same
       ELSE IF w = "cus_getData"
       THEN /\ AfterUserStatus(p,
                   [l EXCEPT !.cachedData = Null, !.cachedTimestamp = NoTs,
                             !.shouldUpdate = UserShouldUpdate(Null, l.cachedTimestamp,
                                                               l.serverTimestamp)])
            /\ same
       ELSE IF w = "cus_errData" THEN AfterUserStatus(p, FailSoft(l, Null)) /\ same
       ELSE IF w = "guc_catchData" THEN ServeWithPhoto(p, l, Null) /\ same
       ELSE IF w \in {"cud_saveData", "cud_saveTs"}
       THEN /\ Goto(p, IF l.wbData.photo # NoTs THEN "sfp_getBlob" ELSE "cud_saveUpdatedAt", l)
            /\ same
       ELSE IF w \in {"sfp_getBlob", "sfp_getTs"}
       THEN /\ IF shouldFetchPhoto(NoTs, NoTs, PhotoVersionOf(l.wbData, l.wbTs))
               THEN Goto(p, "photo_fetch", [l EXCEPT !.photoBlob = NoTs, !.nPhoto = @ + 1])
               ELSE Goto(p, "cud_saveUpdatedAt", l)
            /\ same
       ELSE IF w \in {"photo_saveBlob", "photo_saveTs"} THEN Goto(p, AfterPhoto(p), l) /\ same
       ELSE IF w = "cud_saveUpdatedAt" THEN Goto(p, AfterCacheUserData(p), l) /\ same
       ELSE IF w = "gcp_getBlob" THEN Goto(p, "done", l) /\ same
       ELSE IF w = "hss_saveUpdatedAt"
       THEN /\ pendingUpdates' = MarkAllSynced(pendingUpdates)
            /\ isCurrentlySyncing' = FALSE
            /\ Goto(p, "done", [l EXCEPT !.retOk = TRUE])
            /\ UNCHANGED clock
       ELSE IF w = "cfs_getTs" THEN Goto(p, "cfs_errData", l) /\ same
       ELSE IF w = "cfs_getData"
       THEN /\ AfterFinanceStatus(p,
                   [l EXCEPT !.cachedData = Null, !.cachedTimestamp = NoTs,
                             !.shouldUpdate = determineShouldUpdate(Null, l.cachedTimestamp,
                                                                    l.serverTimestamp)])
            /\ same
       ELSE IF w = "cfs_errData" THEN AfterFinanceStatus(p, FailSoft(l, Null)) /\ same
       ELSE IF w \in {"cfd_saveData", "cfd_saveTs"} THEN Goto(p, "done", l) /\ same
       ELSE IF w = "fb_getData"
       THEN /\ Goto(p, "done",
                    [l EXCEPT !.ret = IF op[p] = "getAccountsWithCachedBalances"
                                      THEN FinanceView(Null).accounts ELSE FinanceView(Null)])
            /\ same
       ELSE IF w = "gab_getData" THEN Goto(p, "cfs_probe", [l EXCEPT !.nProbe = 1]) /\ same
       ELSE IF w \in {"clr_photo", "clr_photoTs", "clr_data", "clr_ts", "cfc_data", "cfc_ts"}
       THEN Goto(p, "done", l) /\ same
       ELSE IF w = "ucp_getBlob"
       THEN /\ Goto(p, "ucp_fetch", [l EXCEPT !.wbTs = ClientNow(clock)])
            /\ clock' = clock + 1
            /\ UNCHANGED <<pendingUpdates, isCurrentlySyncing>>
       ELSE IF w \in {"ucp_saveBlob", "ucp_saveTs"} THEN Goto(p, "ucp_getData", l) /\ same
       ELSE IF w = "ucp_getUpdatedAt" THEN Goto(p, "ucp_saveData", l) /\ same
       ELSE Goto(p, AfterUpdateCachedPhoto(p), l) /\ same
    /\ UNCHANGED <<user, store, pairedTs, Server, nowMs, acked, lastQueued>>

\* a stored string that JSON.parse cannot decode, left in a JSON-encoded key
\* between two calls (a write cut short, another release of the application)
StorageCorrupted ==
    /\ \A p \in Procs : pc[p] = "idle"
    /\ \E k \in {"userData", "financeData", "financeTs"} :
           /\ store[k] # NoValue /\ store[k] # Corrupt
           /\ store' = [store EXCEPT ![k] = Corrupt]
    /\ UNCHANGED <<user, pairedTs, Server, SyncState, clock, pc, op, loc, pre>>

(***************************************************************************)
(* The environment                                                         *)
(***************************************************************************)
\* the caller takes the result; the slot is free again
Return(p) ==
    /\ At(p, "done")
    /\ pc' = [pc EXCEPT ![p] = "idle"]
    /\ op' = [op EXCEPT ![p] = "none"]
    /\ loc' = [loc EXCEPT ![p] = InitLoc]
    /\ pre' = IF pre = NoHistory THEN pre ELSE EmptyStore
    /\ UNCHANGED <<user, store, pairedTs, Server, SyncState, clock>>

\* the rejection of a promise nobody awaits is reported by the runtime
\* (unhandledrejection); the slot is free again
UnhandledRejection(p) ==
    /\ At(p, "unhandled")
    /\ pc' = [pc EXCEPT ![p] = "idle"]
    /\ op' = [op EXCEPT ![p] = "none"]
    /\ loc' = [loc EXCEPT ![p] = InitLoc]
    /\ pre' = IF pre = NoHistory THEN pre ELSE EmptyStore
    /\ UNCHANGED <<user, store, pairedTs, Server, SyncState, clock>>

\* the user record changes on the server from another device (a field that
\* is not modelled changes; updated_at moves on)
ExternalUserChange ==
    /\ srvUser.updated_at < MaxVer
    /\ srvUser' = [srvUser EXCEPT !.updated_at = @ + 1]
    /\ UNCHANGED <<user, store, pairedTs, srvFin, SyncState, clock, pc, op, loc, pre>>

\* the finance data change on the server (another device, a new transaction)
ExternalFinanceChange ==
    /\ srvFin < MaxFinVer
    /\ srvFin' = srvFin + 1
    /\ UNCHANGED <<user, store, pairedTs, srvUser, SyncState, clock, pc, op, loc, pre>>

\* Finance bundles a previous session (possibly of an earlier release, whose
\* accounts came without balances) may have left in the durable store, all
\* stored with the timestamp 1
PersistedAccounts ==
    {<<[id |-> 1, balance |-> 10]>>,
     <<[id |-> 1]>>,
     <<[id |-> 1, balance |-> 10], [id |-> 2]>>}

PersistedFinance ==
    {[financeData |-> NoValue, financeTs |-> NoValue]} \cup
    {[financeData |-> JSONstringify(FinanceBundle(TransactionsAt(1), a, 1)),
      financeTs |-> JSONstringify(1)] : a \in PersistedAccounts}

InitCommon ==
    /\ srvUser \in [name : {"Alice"}, photo : {0, 1}, updated_at : {1}]
    /\ srvFin = 1
    /\ pendingUpdates = <<>>
    /\ isCurrentlySyncing = FALSE
    /\ nowMs = 0
    /\ clock = 0
    /\ pc = [p \in Procs |-> "idle"]
    /\ op = [p \in Procs |-> "none"]
    /\ loc = [p \in Procs |-> InitLoc]
    /\ acked = {}
    /\ lastQueued = Null
    /\ user = UserPayload(srvUser)
    /\ pairedTs = NoTs

Init ==
    /\ InitCommon
    /\ store = EmptyStore
    /\ pre = NoHistory

\* BackgroundSync under overlapping callers: local edits, sync calls from two
\* call sites, network completions and server-side changes, in any order
Next ==
    \/ \E n \in Names : queueUserUpdate(n)
    \/ \E p \in Procs, o \in SyncOps : CallSync(p, o)
    \/ \E p \in Procs : SyncPutOk(p)
    \/ \E p \in Procs : SyncPutFail(p)
    \/ \E p \in Procs : SyncSaveUpdatedAt(p)
    \/ \E p \in Procs : CudSaveData(p)
    \/ \E p \in Procs : CudSaveTs(p)
    \/ \E p \in Procs : SfpGetBlob(p)
    \/ \E p \in Procs : SfpGetTs(p)
    \/ \E p \in Procs : PhotoFetchOk(p)
    \/ \E p \in Procs : PhotoFetchFail(p)
    \/ \E p \in Procs : PhotoSaveBlob(p)
    \/ \E p \in Procs : PhotoSaveTs(p)
    \/ \E p \in Procs : CudSaveUpdatedAt(p)
    \/ \E p \in Procs : Return(p)
    \/ ExternalUserChange

Spec == Init /\ [][Next]_vars

\* BackgroundSync with clearPendingUpdates (logout) among the callers
NextClear ==
    \/ Next
    \/ clearPendingUpdates

SpecClear == Init /\ [][NextClear]_vars

\* every request is answered and every Preferences promise settles
SyncRequestCompletes == \E p \in Procs : SyncPutOk(p) \/ SyncPutFail(p)

WritebackAdvances ==
    \E p \in Procs :
        \/ CudSaveData(p) \/ CudSaveTs(p) \/ SfpGetBlob(p) \/ SfpGetTs(p)
        \/ PhotoFetchOk(p) \/ PhotoFetchFail(p)
        \/ PhotoSaveBlob(p) \/ PhotoSaveTs(p)
        \/ CudSaveUpdatedAt(p) \/ SyncSaveUpdatedAt(p)

SpecFair ==
    /\ Init /\ [][Next]_vars
    /\ WF_vars(SyncRequestCompletes)
    /\ WF_vars(WritebackAdvances)

\* a sync racing with reads of the user record: slot p1 syncs, slot p2 reads
\* through the cache
NextOverlap ==
    \/ \E n \in Names : queueUserUpdate(n)
    \/ \E o \in SyncOps : CallSync("p1", o)
    \/ CallUser("p2", "getUserDataWithCache")
    \/ SyncPutOk("p1")
    \/ SyncPutFail("p1")
    \/ SyncSaveUpdatedAt("p1")
    \/ \E p \in Procs : CudSaveData(p)
    \/ \E p \in Procs : CudSaveTs(p)
    \/ \E p \in Procs : SfpGetBlob(p)
    \/ \E p \in Procs : SfpGetTs(p)
    \/ \E p \in Procs : PhotoFetchOk(p)
    \/ \E p \in Procs : PhotoFetchFail(p)
    \/ \E p \in Procs : PhotoSaveBlob(p)
    \/ \E p \in Procs : PhotoSaveTs(p)
    \/ \E p \in Procs : CudSaveUpdatedAt(p)
    \/ CusProbeOk("p2")
    \/ CusProbeFail("p2")
    \/ CusGetTs("p2")
    \/ CusGetData("p2")
    \/ CusErrData("p2")
    \/ GucFetchOk("p2")
    \/ GucFetchFail("p2")
    \/ GucFetchThrow("p2")
    \/ GucCatchData("p2")
    \/ GcpGetBlob("p2")
    \/ \E p \in Procs : Return(p)

SpecOverlap == Init /\ [][NextOverlap]_vars

\* a user without a profile photo
InitPass == Init /\ srvUser.photo = NoTs

\* a reconciliation pass (slot p1: navigateToScreen -> performBackgroundSync)
\* next to the flush of another pass (slot p2: performBackgroundSync is not
\* awaited, so passes overlap), local edits and changes of the record on the
\* server
NextPass ==
    \/ \E n \in Names : handleUserUpdate(n)
    \/ PbsStart("p1")
    \/ PbsAfterFlush("p1")
    \/ PbsAfterStatus("p1")
    \/ PbsAfterRefresh("p1")
    \/ PbsFlush("p2")
    \/ Return("p2")
    \/ \E p \in Procs : SyncPutOk(p)
    \/ \E p \in Procs : SyncPutFail(p)
    \/ \E p \in Procs : SyncSaveUpdatedAt(p)
    \/ \E p \in Procs : CudSaveData(p)
    \/ \E p \in Procs : CudSaveTs(p)
    \/ \E p \in Procs : CudSaveUpdatedAt(p)
    \/ CusProbeOk("p1")
    \/ CusProbeFail("p1")
    \/ CusGetTs("p1")
    \/ CusGetData("p1")
    \/ CusErrData("p1")
    \/ GucFetchOk("p1")
    \/ GucFetchFail("p1")
    \/ GucFetchThrow("p1")
    \/ GucCatchData("p1")
    \/ GcpGetBlob("p1")
    \/ ExternalUserChange

SpecPass == InitPass /\ [][NextPass]_vars

\* a navigation occurs and starts a pass
NavigationOccurs == PbsStart("p1")

\* the awaits of a pass other than the PUT and the Preferences writes come
\* back, one way or the other
PassAdvances ==
    \/ PbsAfterFlush("p1")
    \/ PbsAfterStatus("p1")
    \/ PbsAfterRefresh("p1")
    \/ CusProbeOk("p1")
    \/ CusProbeFail("p1")
    \/ CusGetTs("p1")
    \/ CusGetData("p1")
    \/ CusErrData("p1")
    \/ GucFetchOk("p1")
    \/ GucFetchFail("p1")
    \/ GucFetchThrow("p1")
    \/ GucCatchData("p1")
    \/ GcpGetBlob("p1")

\* the server answers a PUT with 200
SyncRequestSucceeds == \E p \in Procs : SyncPutOk(p)

\* the pass under fairness: navigation keeps occurring, awaits come back, and
\* a PUT that is in flight again and again is answered 200 at some point
SpecPassFair ==
    /\ InitPass /\ [][NextPass]_vars
    /\ WF_vars(NavigationOccurs)
    /\ WF_vars(PassAdvances)
    /\ WF_vars(SyncRequestCompletes)
    /\ WF_vars(WritebackAdvances)
    /\ SF_vars(SyncRequestSucceeds)

InitSeq ==
    /\ InitCommon
    /\ \E f \in PersistedFinance :
           store = [EmptyStore EXCEPT !.financeData = f.financeData,
                                      !.financeTs = f.financeTs]
    /\ pre = EmptyStore

\* one read of the user or finance cache at a time (slot p1 alone), each run
\* to completion before the next starts, with server-side changes in between
NextSeq ==
    \/ \E o \in UserOps : CallUser("p1", o)
    \/ \E o \in FinanceOps : CallFinance("p1", o)
    \/ CudSaveData("p1")
    \/ CudSaveTs("p1")
    \/ SfpGetBlob("p1")
    \/ SfpGetTs("p1")
    \/ PhotoFetchOk("p1")
    \/ PhotoFetchFail("p1")
    \/ PhotoSaveBlob("p1")
    \/ PhotoSaveTs("p1")
    \/ CudSaveUpdatedAt("p1")
    \/ CusProbeOk("p1")
    \/ CusProbeFail("p1")
    \/ CusGetTs("p1")
    \/ CusGetData("p1")
    \/ CusErrData("p1")
    \/ GucFetchOk("p1")
    \/ GucFetchFail("p1")
    \/ GucFetchThrow("p1")
    \/ GucCatchData("p1")
    \/ GcpGetBlob("p1")
    \/ CfsProbeOk("p1")
    \/ CfsProbeFail("p1")
    \/ CfsGetTs("p1")
    \/ CfsGetData("p1")
    \/ CfsErrData("p1")
    \/ FcfTxResponse("p1")
    \/ FcfAccResponse("p1")
    \/ FcfThrow("p1")
    \/ CfdSaveData("p1")
    \/ CfdSaveTs("p1")
    \/ FbGetData("p1")
    \/ Return("p1")
    \/ ExternalUserChange
    \/ ExternalFinanceChange

SpecSeq == InitSeq /\ [][NextSeq]_vars

(***************************************************************************)
(* The cache managers one call at a time                                   *)
(***************************************************************************)
\* no call is running
Quiescent == \A p \in Procs : pc[p] = "idle"

InitCache ==
    /\ InitCommon
    /\ store = EmptyStore
    /\ pre = EmptyStore

\* the steps of cacheUserData
CacheUserDataSteps(p) ==
    \/ CudSaveData(p)
    \/ CudSaveTs(p)
    \/ SfpGetBlob(p)
    \/ SfpGetTs(p)
    \/ PhotoFetchOk(p)
    \/ PhotoFetchFail(p)
    \/ PhotoSaveBlob(p)
    \/ PhotoSaveTs(p)
    \/ CudSaveUpdatedAt(p)

\* the steps of checkUserUpdateStatus and getUserDataWithCache
UserReadSteps(p) ==
    \/ CusProbeOk(p)
    \/ CusProbeFail(p)
    \/ CusGetTs(p)
    \/ CusGetData(p)
    \/ CusErrData(p)
    \/ GucFetchOk(p)
    \/ GucFetchFail(p)
    \/ GucFetchThrow(p)
    \/ GucCatchData(p)
    \/ GcpGetBlob(p)

\* the steps of checkFinanceUpdateStatus and fetchAndCacheFinanceData
FinanceReadSteps(p) ==
    \/ CfsProbeOk(p)
    \/ CfsProbeFail(p)
    \/ CfsGetTs(p)
    \/ CfsGetData(p)
    \/ CfsErrData(p)
    \/ FcfTxResponse(p)
    \/ FcfAccResponse(p)
    \/ FcfThrow(p)
    \/ CfdSaveData(p)
    \/ CfdSaveTs(p)

\* the steps of clearCache and clearAllFinanceCache
ClearSteps(p) ==
    \/ ClrPhoto(p)
    \/ ClrPhotoTs(p)
    \/ ClrData(p)
    \/ ClrTs(p)
    \/ CfcData(p)
    \/ CfcTs(p)

\* the steps of updateCachedPhoto
UpdateCachedPhotoSteps(p) ==
    \/ UcpGetBlob(p)
    \/ UcpFetchOk(p)
    \/ UcpFetchThrow(p)
    \/ UcpSaveBlob(p)
    \/ UcpSaveTs(p)
    \/ UcpGetData(p)
    \/ UcpGetUpdatedAt(p)
    \/ UcpSaveData(p)
    \/ UcpSaveDataTs(p)

\* every read, refresh and clear of the two cache managers, started when no
\* call is running and run to completion (the refresh that
\* getAccountsWithCachedBalances leaves running included), over a store
\* whose calls succeed, with server-side changes and undecodable stored
\* values in between
NextCache ==
    \/ \E o \in UserOps : Quiescent /\ CallUser("p1", o)
    \/ Quiescent /\ CallForceUser("p1")
    \/ Quiescent /\ CallClearUser("p1")
    \/ \E o \in FinanceOps : Quiescent /\ CallFinance("p1", o)
    \/ Quiescent /\ CallForceFinance("p1")
    \/ Quiescent /\ CallClearFinance("p1")
    \/ Quiescent /\ CallAccounts("p1")
    \/ CacheUserDataSteps("p1")
    \/ UserReadSteps("p1")
    \/ FruFetchOk("p1")
    \/ FruFetchFail("p1")
    \/ \E p \in Procs : FinanceReadSteps(p)
    \/ FbGetData("p1")
    \/ GabGetData("p1")
    \/ GabFetchOk("p1")
    \/ GabFetchFail("p1")
    \/ GabFetchThrow("p1")
    \/ ClearSteps("p1")
    \/ \E p \in Procs : Return(p)
    \/ UnhandledRejection(Background)
    \/ ExternalUserChange
    \/ ExternalFinanceChange
    \/ StorageCorrupted

SpecCache == InitCache /\ [][NextCache]_vars

\* the steps of the refresh getAccountsWithCachedBalances leaves running
BackgroundSteps ==
    \/ FinanceReadSteps(Background)
    \/ Return(Background)
    \/ UnhandledRejection(Background)

\* the finance reads one call at a time, the refresh left running included,
\* over the store a previous session left
NextAccounts ==
    \/ \E o \in FinanceOps : Quiescent /\ CallFinance("p1", o)
    \/ Quiescent /\ CallAccounts("p1")
    \/ FinanceReadSteps("p1")
    \/ FbGetData("p1")
    \/ GabGetData("p1")
    \/ GabFetchOk("p1")
    \/ GabFetchFail("p1")
    \/ GabFetchThrow("p1")
    \/ Return("p1")
    \/ BackgroundSteps
    \/ ExternalFinanceChange

\* the promise chain of the refresh is run by the event loop: each request
\* settles (resolves or rejects) and each continuation is then run
FairBackground == WF_vars(BackgroundSteps)

SpecAccounts == InitSeq /\ [][NextAccounts]_vars /\ FairBackground

\* the store a previous session left, with no call-start snapshot kept
InitOverlap ==
    /\ InitCommon
    /\ \E f \in PersistedFinance :
           store = [EmptyStore EXCEPT !.financeData = f.financeData,
                                      !.financeTs = f.financeTs]
    /\ pre = NoHistory

\* the finance reads of a screen (slot p1) started while the refresh that an
\* earlier getAccountsWithCachedBalances left running is still under way
NextFinOverlap ==
    \/ CallFinance("p1", "getFinanceDataWithCache")
    \/ CallForceFinance("p1")
    \/ CallAccounts("p1")
    \/ FinanceReadSteps("p1")
    \/ FbGetData("p1")
    \/ GabGetData("p1")
    \/ GabFetchOk("p1")
    \/ GabFetchFail("p1")
    \/ GabFetchThrow("p1")
    \/ Return("p1")
    \/ BackgroundSteps
    \/ ExternalFinanceChange

SpecFinOverlap == InitOverlap /\ [][NextFinOverlap]_vars

\* The two managers share no key of the store and no variable: a behaviour
\* uses the user side (record, photo, queue) or the finance side, and
\* sequences that mix them are left out.
UserSideUnused ==
    /\ store.userData = NoValue /\ store.userUpdatedAt = NoTs
    /\ store.userPhoto = NoTs /\ store.userPhotoTs = NoTs
    /\ pendingUpdates = <<>> /\ nowMs = 0 /\ srvUser.updated_at = 1

FinanceSideUnused ==
    /\ store.financeData = NoValue /\ store.financeTs = NoValue
    /\ srvFin = 1

\* the same calls, updateCachedPhoto and the sync calls over a store whose
\* calls may throw
NextFaulty ==
    \/ \E o \in UserOps : Quiescent /\ FinanceSideUnused /\ CallUser("p1", o)
    \/ Quiescent /\ FinanceSideUnused /\ CallForceUser("p1")
    \/ Quiescent /\ FinanceSideUnused /\ CallClearUser("p1")
    \/ \E o \in FinanceOps : Quiescent /\ UserSideUnused /\ CallFinance("p1", o)
    \/ Quiescent /\ UserSideUnused /\ CallForceFinance("p1")
    \/ Quiescent /\ UserSideUnused /\ CallClearFinance("p1")
    \/ Quiescent /\ UserSideUnused /\ CallAccounts("p1")
    \/ Quiescent /\ FinanceSideUnused /\ CallPhoto("p1", "updateCachedPhoto")
    \/ \E n \in Names : Quiescent /\ FinanceSideUnused /\ queueUserUpdate(n)
    \/ \E o \in SyncOps : Quiescent /\ FinanceSideUnused /\ CallSync("p1", o)
    \/ SyncPutOk("p1")
    \/ SyncPutFail("p1")
    \/ SyncSaveUpdatedAt("p1")
    \/ CacheUserDataSteps("p1")
    \/ UserReadSteps("p1")
    \/ FruFetchOk("p1")
    \/ FruFetchFail("p1")
    \/ \E p \in Procs : FinanceReadSteps(p)
    \/ FbGetData("p1")
    \/ GabGetData("p1")
    \/ GabFetchOk("p1")
    \/ GabFetchFail("p1")
    \/ GabFetchThrow("p1")
    \/ ClearSteps("p1")
    \/ UpdateCachedPhotoSteps("p1")
    \/ \E p \in Procs : PreferencesFails(p)
    \/ \E p \in Procs : Return(p)
    \/ UnhandledRejection(Background)
    \/ UserSideUnused /\ ExternalFinanceChange

SpecFaulty == InitCache /\ [][NextFaulty]_vars

\* the profile screen: edits, reads and refreshes of the user record and
\* photo uploads, one at a time, over a store whose calls succeed
NextPhoto ==
    \/ \E n \in Names : Quiescent /\ handleUserUpdate(n)
    \/ Quiescent /\ CallUser("p1", "getUserDataWithCache")
    \/ Quiescent /\ CallForceUser("p1")
    \/ Quiescent /\ CallPhoto("p1", "handlePhotoUploadFile")
    \/ UpdateCachedPhotoSteps("p1")
    \/ UplRequestOk("p1")
    \/ UplRequestFail("p1")
    \/ UplSaveUpdatedAt("p1")
    \/ UplGetBlob("p1")
    \/ UplAfterRevert("p1")
    \/ SyncPutOk("p1")
    \/ SyncPutFail("p1")
    \/ SyncSaveUpdatedAt("p1")
    \/ CacheUserDataSteps("p1")
    \/ UserReadSteps("p1")
    \/ FruFetchOk("p1")
    \/ FruFetchFail("p1")
    \/ ReturnToCaller("p1")

SpecPhoto == InitCache /\ [][NextPhoto]_vars

\* updateCachedPhoto (slot p1, the profile screen) next to the syncs of
\* queued edits and their writebacks (slot p2, the sync timer)
NextPhotoOverlap ==
    \/ \E n \in Names : queueUserUpdate(n)
    \/ \E o \in SyncOps : CallSync("p2", o)
    \/ SyncPutOk("p2")
    \/ SyncPutFail("p2")
    \/ SyncSaveUpdatedAt("p2")
    \/ CacheUserDataSteps("p2")
    \/ CallPhoto("p1", "updateCachedPhoto")
    \/ UpdateCachedPhotoSteps("p1")
    \/ \E p \in Procs : Return(p)

SpecPhotoOverlap == Init /\ [][NextPhotoOverlap]_vars

\* getUserDataWithCache called again and again over a working network: the
\* probe and the profile request answer 200; a photo download may fail
RetrySteps ==
    \/ Quiescent /\ CallUser("p1", "getUserDataWithCache")
    \/ CusProbeOk("p1")
    \/ CusGetTs("p1")
    \/ CusGetData("p1")
    \/ GucFetchOk("p1")
    \/ CacheUserDataSteps("p1")
    \/ GcpGetBlob("p1")
    \/ Return("p1")

NextPhotoRetry ==
    \/ RetrySteps
    \/ ExternalUserChange

\* the screen keeps calling and every await settles; a photo download that is
\* attempted again and again succeeds at some point
FairRetry == WF_vars(RetrySteps) /\ SF_vars(PhotoFetchOk("p1"))

SpecPhotoRetry == InitCache /\ [][NextPhotoRetry]_vars /\ FairRetry

(***************************************************************************)
(* Properties                                                              *)
(***************************************************************************)
Done(p, ops) == pc[p] = "done" /\ op[p] \in ops

\* the pcs at which a writeback of the user record is in progress
WritebackPcs ==
    {"cud_saveData", "cud_saveTs", "sfp_getBlob", "sfp_getTs", "photo_fetch",
     "photo_saveBlob", "photo_saveTs", "cud_saveUpdatedAt", "hss_saveUpdatedAt"}

\* C1: at most one ApiClient.updateUserProfile request is in flight at any
\* time, whatever the interleaving of queueUserUpdate, attemptSync,
\* forceSyncNow, syncIfPending and network completions.
C1_OnePutInFlight ==
    Cardinality({p \in Procs : pc[p] = "sync_put"}) <= 1

\* C1 witness: a sync call returned without a request while the request of
\* another call is still pending.
C1_Witness ==
    \E p, q \in Procs :
        /\ pc[p] = "sync_put"
        /\ Done(q, SyncOps) /\ loc[q].nPut = 0 /\ ~loc[q].retOk

\* C2: no local update is lost: every entry marked synced had its own data
\* sent as the body of an updateUserProfile request that returned 200 (so an
\* update queued while a sync is in flight is still unsynced after it).
C2_NoLostUpdate ==
    \A i \in 1..Len(pendingUpdates) :
        pendingUpdates[i].synced => pendingUpdates[i].timestamp \in acked

\* C3: the queue holds at most one unsynced entry, and that entry carries the
\* data of the latest queueUserUpdate call.
C3_OneUnsyncedLatest ==
    /\ Len(Unsynced(pendingUpdates)) <= 1
    /\ \A i \in 1..Len(pendingUpdates) :
           ~pendingUpdates[i].synced => pendingUpdates[i].data = lastQueued

\* C3 witness: two updates were queued with no sync in between; one unsynced
\* entry is left, holding the second update's data.
C3_Witness ==
    /\ nowMs = 2
    /\ acked = {}
    /\ \A p \in Procs : pc[p] = "idle"
    /\ Len(pendingUpdates) = 1
    /\ ~pendingUpdates[1].synced
    /\ pendingUpdates[1].timestamp = 2

\* C4: whenever no writeback of the user record is in progress, the stored
\* user timestamp is the one passed to the writeback that wrote the stored
\* user payload.
C4_PayloadTimestampPaired ==
    (\A p \in Procs : pc[p] \notin WritebackPcs) /\ store.userData # NoValue
        => store.userUpdatedAt = pairedTs

\* C5: with a cached timestamp T1 and a 200 probe returning T2 # T1,
\* getUserDataWithCache / getFinanceDataWithCache issue the full fetch exactly
\* once, and after a successful fetch the cache holds the fetched payload with
\* the stored timestamp T2.
C5_StaleRefetch ==
    /\ Done("p1", {"getUserDataWithCache"})
       /\ loc["p1"].probe = "ok" /\ pre.userUpdatedAt # NoTs
       /\ loc["p1"].serverTimestamp # pre.userUpdatedAt
       => /\ loc["p1"].nFull = 1
          /\ loc["p1"].fetch = "ok" =>
                 /\ store.userData = JSONstringify(loc["p1"].wbData)
                 /\ store.userUpdatedAt = loc["p1"].serverTimestamp
    /\ Done("p1", {"getFinanceDataWithCache"})
       /\ loc["p1"].probe = "ok" /\ ParseFinanceTs(pre.financeTs) # NoTs
       /\ loc["p1"].serverTimestamp # ParseFinanceTs(pre.financeTs)
       => /\ loc["p1"].nFull = 1
          /\ loc["p1"].fetch = "ok" =>
                 /\ FinanceView(ParseFinanceData(store.financeData)) = loc["p1"].ret
                 /\ ParseFinanceData(store.financeData).timestamp = loc["p1"].serverTimestamp
                 /\ ParseFinanceTs(store.financeTs) = loc["p1"].serverTimestamp

\* C5 witness: getUserDataWithCache found the cached timestamp behind the
\* server's, fetched and stored the fetched payload.
C5_Witness ==
    /\ Done("p1", {"getUserDataWithCache"})
    /\ loc["p1"].probe = "ok" /\ pre.userUpdatedAt # NoTs
    /\ loc["p1"].serverTimestamp # pre.userUpdatedAt
    /\ loc["p1"].fetch = "ok"
    /\ store.userData # pre.userData

\* C6: with a cached payload stored with timestamp T (the finance bundle
\* shape-valid) and a 200 probe returning T, getUserDataWithCache /
\* getFinanceDataWithCache return the cached data, issue no full fetch and no
\* photo download, and leave the store as it was.
C6_CacheHit ==
    /\ Done("p1", {"getUserDataWithCache"})
       /\ loc["p1"].probe = "ok" /\ pre.userData # NoValue
       /\ pre.userUpdatedAt # NoTs
       /\ loc["p1"].serverTimestamp = pre.userUpdatedAt
       => /\ loc["p1"].nFull = 0 /\ loc["p1"].nPhoto = 0
          /\ store = pre
          /\ loc["p1"].ret = WithPhoto(ParseUserData(pre.userData), pre.userPhoto)
    /\ Done("p1", {"getFinanceDataWithCache"})
       /\ loc["p1"].probe = "ok" /\ pre.financeData # NoValue
       /\ ParseFinanceTs(pre.financeTs) # NoTs
       /\ loc["p1"].serverTimestamp = ParseFinanceTs(pre.financeTs)
       /\ AccountsAllHaveBalance(ParseFinanceData(pre.financeData).accounts)
       => /\ loc["p1"].nFull = 0
          /\ store = pre
          /\ loc["p1"].ret = FinanceView(ParseFinanceData(pre.financeData))

\* C6 witness: getUserDataWithCache served a cached record with a cached
\* photo after a probe that matched the cached timestamp.
C6_Witness ==
    /\ Done("p1", {"getUserDataWithCache"})
    /\ loc["p1"].probe = "ok" /\ pre.userData # NoValue
    /\ pre.userUpdatedAt # NoTs /\ pre.userPhoto # NoTs
    /\ loc["p1"].serverTimestamp = pre.userUpdatedAt

\* C7: checkFinanceUpdateStatus, with a cached bundle whose stored timestamp
\* equals the server's and in which at least one account has no balance,
\* returns shouldUpdate = true.
C7_MissingBalanceForcesUpdate ==
    /\ Done("p1", {"checkFinanceUpdateStatus"})
    /\ loc["p1"].probe = "ok" /\ pre.financeData # NoValue
    /\ loc["p1"].serverTimestamp = ParseFinanceTs(pre.financeTs)
    /\ ~AccountsAllHaveBalance(ParseFinanceData(pre.financeData).accounts)
    => loc["p1"].ret.shouldUpdate

\* C8: when the probe throws or answers a non-200 status while a payload is
\* cached, getUserDataWithCache / getFinanceDataWithCache return the cached
\* payload, issue no full fetch and leave the store as it was.
C8_FailSoftRead ==
    /\ Done("p1", {"getUserDataWithCache"})
       /\ loc["p1"].probe \in {"fail", "throw"} /\ pre.userData # NoValue
       => /\ loc["p1"].nFull = 0 /\ loc["p1"].nPhoto = 0
          /\ store = pre
          /\ loc["p1"].ret = WithPhoto(ParseUserData(pre.userData), pre.userPhoto)
    /\ Done("p1", {"getFinanceDataWithCache"})
       /\ loc["p1"].probe \in {"fail", "throw"} /\ pre.financeData # NoValue
       => /\ loc["p1"].nFull = 0
          /\ store = pre
          /\ loc["p1"].ret = FinanceView(ParseFinanceData(pre.financeData))

\* C8 witness: getFinanceDataWithCache returned the cached bundle after a
\* probe that threw, although the server had moved on.
C8_Witness ==
    /\ Done("p1", {"getFinanceDataWithCache"})
    /\ loc["p1"].probe = "throw" /\ pre.financeData # NoValue
    /\ srvFin # ParseFinanceTs(pre.financeTs)

\* C9: when the probe throws or answers a non-200 status while the cache
\* holds {P, T}, checkUserUpdateStatus / checkFinanceUpdateStatus resolve to
\* {shouldUpdate: false, cachedData: P, serverTimestamp: null}.
C9_FailSoftStatus ==
    /\ Done("p1", {"checkUserUpdateStatus"})
       /\ loc["p1"].probe \in {"fail", "throw"} /\ pre.userData # NoValue
       => loc["p1"].ret = [shouldUpdate |-> FALSE,
                           cachedData |-> ParseUserData(pre.userData),
                           serverTimestamp |-> NoTs]
    /\ Done("p1", {"checkFinanceUpdateStatus"})
       /\ loc["p1"].probe \in {"fail", "throw"} /\ pre.financeData # NoValue
       => loc["p1"].ret = [shouldUpdate |-> FALSE,
                           cachedData |-> ParseFinanceData(pre.financeData),
                           serverTimestamp |-> NoTs]

\* C9 witness: checkUserUpdateStatus resolved after a probe that threw, with
\* a stale record in the cache.
C9_Witness ==
    /\ Done("p1", {"checkUserUpdateStatus"})
    /\ loc["p1"].probe = "throw" /\ pre.userData # NoValue
    /\ pre.userUpdatedAt # NoTs /\ pre.userUpdatedAt # srvUser.updated_at

\* C10: when a sync call whose request returned 200 with body R returns (no
\* other call interleaved), it returns true, the user cache holds R with the
\* stored timestamp R.updated_at, and the queue has no unsynced entry.
C10_SyncSuccess ==
    [][ \A p \in Procs :
          pc[p] # "done" /\ pc'[p] = "done" /\ op'[p] \in SyncOps
          /\ loc'[p].nPut = 1 /\ loc'[p].fetch = "ok"
          => /\ loc'[p].retOk
             /\ loc'[p].wbData.name = loc'[p].sent.data.name
             /\ store'.userData = JSONstringify(loc'[p].wbData)
             /\ store'.userUpdatedAt = loc'[p].wbData.updated_at
             /\ Len(Unsynced(pendingUpdates')) = 0 ]_vars

\* C10 witness: Alice then Alicia were queued, one attemptSync sent Alicia
\* and got 200; the cache holds Alicia.
C10_Witness ==
    /\ Done("p1", {"attemptSync"})
    /\ loc["p1"].fetch = "ok"
    /\ nowMs = 2 /\ acked = {2} /\ Len(pendingUpdates) = 1
    /\ loc["p1"].sent.data.name = "Alicia"
    /\ ParseUserData(store.userData).name = "Alicia"
    /\ store.userUpdatedAt = 2

\* C11: when the request of a sync answers a non-200 status or throws, the
\* call returns false, the queue and the stored user record (payload,
\* timestamp, photo) are as they were, no request is left in flight, and a
\* request is only ever issued by a step that starts a sync call.
C11_SyncFailure ==
    [][ \A p \in Procs :
          /\ pc[p] = "sync_put" /\ pc'[p] = "done"
              /\ loc'[p].fetch \in {"fail", "throw"}
              => /\ ~loc'[p].retOk
                 /\ pendingUpdates' = pendingUpdates
                 /\ store' = store
                 /\ \A q \in Procs : pc'[q] # "sync_put"
          /\ pc[p] # "sync_put" /\ pc'[p] = "sync_put" => pc[p] = "idle" ]_vars

\* C11 witness: a sync call has returned false after its request threw, and
\* the entry it sent is still unsynced.
C11_Witness ==
    \E p \in Procs :
        /\ Done(p, SyncOps) /\ loc[p].fetch = "throw" /\ ~loc[p].retOk
        /\ \E i \in 1..Len(pendingUpdates) :
               /\ ~pendingUpdates[i].synced
               /\ pendingUpdates[i].timestamp = loc[p].sent.timestamp
        /\ store = EmptyStore

\* C12: isCurrentlySyncing is false when a sync that issued its request
\* returns, whether the request answered 200, another status or threw; and,
\* requests being answered, the Syncing state always leads back to Idle.
C12_SyncReturnsToIdle ==
    /\ [][ \A p \in Procs :
             pc[p] # "done" /\ pc'[p] = "done" /\ loc'[p].nPut = 1
             => ~isCurrentlySyncing' ]_vars
    /\ (isCurrentlySyncing ~> ~isCurrentlySyncing)

\* C12 witness: a later sync call issued its request after an earlier sync
\* had failed and returned.
C12_Witness ==
    \E p, q \in Procs :
        /\ p # q
        /\ Done(p, SyncOps) /\ loc[p].fetch \in {"fail", "throw"}
        /\ pc[q] = "sync_put" /\ isCurrentlySyncing

\* C13: within a pass the staleness probe of the user profile
\* (checkUserUpdateStatus) is issued only by the step that follows the return
\* of the pass's forceSyncNow, or by the start of a pass that found no
\* unsynced entry; a pass that starts with unsynced entries starts with
\* forceSyncNow.
C13_FlushBeforeProbe ==
    [][ \A p \in Procs :
          /\ pc'[p] = "cus_probe" /\ op'[p] = "checkUserUpdateStatus"
              /\ pc[p] # "cus_probe"
              => \/ pc[p] = "done" /\ op[p] = "forceSyncNow"
                 \/ pc[p] = "idle" /\ getPendingUpdateCount = 0
          /\ pc[p] = "idle" /\ pc'[p] # "idle" /\ getPendingUpdateCount > 0
              => op'[p] = "forceSyncNow" ]_vars

\* C13 witness: the pass is at its staleness probe after its flush sent an
\* entry that the server acknowledged.
C13_Witness ==
    /\ pc["p1"] = "cus_probe" /\ op["p1"] = "checkUserUpdateStatus"
    /\ loc["p1"].edit = 0
    /\ acked = {1} /\ nowMs = 1
    /\ pc["p2"] = "idle"

\* C14: when the entry that was unsynced as the pass reached its staleness
\* step is still unsynced at the end of the pass's refresh, the local user
\* state the refresh leaves carries that entry's edit.
C14_EditNotClobbered ==
    [][ \A p \in Procs :
          /\ pc[p] = "done" /\ op[p] = "getUserDataWithCache" /\ pc'[p] = "idle"
          /\ loc[p].edit # 0
          => \A i \in 1..Len(pendingUpdates) :
                 ~pendingUpdates[i].synced
                     /\ pendingUpdates[i].timestamp = loc[p].edit
                 => user'.name = pendingUpdates[i].data.name ]_vars

\* the queue holds the entry enqueued at t, unsynced
UnsyncedAt(t) ==
    \E i \in 1..Len(pendingUpdates) :
        ~pendingUpdates[i].synced /\ pendingUpdates[i].timestamp = t

\* C15: a pass that starts while an entry is unsynced and no sync is in
\* flight issues a PUT carrying the data of the current unsynced entry; and,
\* navigation going on and the server answering 200 at some point, every
\* unsynced entry is eventually synced or superseded (gone from the queue),
\* as long as a server version and a client timestamp are left within the
\* bounds.
C15_RetryAtNavigation ==
    /\ [][ \A p \in Procs :
             pc[p] = "idle" /\ pc'[p] # "idle"
                 /\ getPendingUpdateCount > 0 /\ ~isCurrentlySyncing
             => /\ pc'[p] = "sync_put" /\ loc'[p].nPut = 1
                /\ loc'[p].sent = LatestUpdate(Unsynced(pendingUpdates))
                /\ loc'[p].sent.data = lastQueued ]_vars
    /\ \A t \in 1..MaxUpdates : UnsyncedAt(t) ~> \/ ~UnsyncedAt(t)
                           \/ srvUser.updated_at = MaxVer
                           \/ clock = MaxClock

\* C15 witness: the flush of one pass failed and has returned, and the pass
\* of the next navigation has issued a new PUT carrying the same entry.
C15_Witness ==
    /\ Done("p2", {"forceSyncNow"}) /\ loc["p2"].fetch \in {"fail", "throw"}
    /\ pc["p1"] = "sync_put" /\ op["p1"] = "forceSyncNow"
    /\ loc["p1"].sent = loc["p2"].sent
    /\ UnsyncedAt(loc["p1"].sent.timestamp)

\* C16: attemptSync started while a sync is in flight (isCurrentlySyncing)
\* issues no request, changes nothing and returns true.
C16_BusyIsSuccess ==
    [][ \A p \in Procs :
          pc[p] = "idle" /\ pc'[p] # "idle" /\ op'[p] = "attemptSync"
              /\ isCurrentlySyncing
          => /\ pc'[p] = "done" /\ loc'[p].nPut = 0
             /\ UNCHANGED <<pendingUpdates, isCurrentlySyncing, store, Server>>
             /\ loc'[p].retOk ]_vars

\* C17: the entry a sync takes when it starts is the most recently enqueued
\* entry, which is unsynced; the body the server receives is that entry's
\* data, whatever has been enqueued since, so the data of an entry superseded
\* before the sync started is never sent.
C17_SendsLatestEntry ==
    [][ \A p \in Procs :
          /\ pc[p] # "sync_put" /\ pc'[p] = "sync_put"
              => /\ ~loc'[p].sent.synced
                 /\ loc'[p].sent.timestamp = nowMs
                 /\ loc'[p].sent.data = lastQueued
                 /\ \A i \in 1..Len(pendingUpdates) :
                        ~pendingUpdates[i].synced
                        => pendingUpdates[i] = loc'[p].sent
          /\ pc[p] = "sync_put" /\ pc'[p] = "cud_saveData"
              => /\ srvUser'.name = loc[p].sent.data.name
                 /\ loc'[p].sent = loc[p].sent ]_vars

\* C17 witness: two edits were enqueued before the sync started; the server
\* has been given the second edit's data and nothing of the first.
C17_Witness ==
    \E p \in Procs :
        /\ pc[p] = "cud_saveData" /\ op[p] \in SyncOps
        /\ loc[p].sent.timestamp = 2 /\ acked = {2}
        /\ srvUser.name = "Alicia" /\ loc[p].sent.data.name = "Alicia"
        /\ nowMs = 2 /\ Len(pendingUpdates) = 1

\* C18: attemptSync, forceSyncNow and syncIfPending started while no sync is
\* in flight and no entry is unsynced return true at once, issue no request,
\* and leave the queue, the flag, the store and the server as they were.
C18_IdleEmptyIsNoop ==
    [][ \A p \in Procs :
          pc[p] = "idle" /\ pc'[p] # "idle" /\ op'[p] \in SyncOps
              /\ ~isCurrentlySyncing /\ ~hasPendingUpdates
          => /\ pc'[p] = "done" /\ loc'[p].retOk
             /\ loc'[p].nPut = 0
             /\ UNCHANGED <<pendingUpdates, isCurrentlySyncing, store, Server>> ]_vars

\* C18 witness: forceSyncNow has returned true without a request, on a queue
\* whose entries are all synced and with the record cached by an earlier sync.
C18_Witness ==
    \E p \in Procs :
        /\ Done(p, {"forceSyncNow"}) /\ loc[p].retOk /\ loc[p].nPut = 0
        /\ ~isCurrentlySyncing /\ ~hasPendingUpdates
        /\ Len(pendingUpdates) > 0
        /\ store.userData # NoValue

\* C19: with no payload in the cache, getUserDataWithCache /
\* getFinanceDataWithCache issue the full fetch exactly once whether the probe
\* answered 200, another status or threw; after a successful fetch the cache
\* holds the fetched payload and a timestamp (the probe's, or the client's
\* clock when the probe gave none).
C19_EmptyCacheFetches ==
    /\ Done("p1", {"getUserDataWithCache"}) /\ pre.userData = NoValue
       => /\ loc["p1"].nFull = 1
          /\ loc["p1"].fetch = "ok" =>
                 /\ ParseUserData(store.userData) = loc["p1"].wbData
                 /\ store.userUpdatedAt # NoTs
                 /\ store.userUpdatedAt =
                        IF loc["p1"].probe = "ok" THEN loc["p1"].serverTimestamp
                        ELSE ClientNow(clock - 1)
    /\ Done("p1", {"getFinanceDataWithCache"}) /\ pre.financeData = NoValue
       => /\ loc["p1"].nFull = 1
          /\ loc["p1"].fetch = "ok" =>
                 /\ FinanceView(ParseFinanceData(store.financeData)) = loc["p1"].ret
                 /\ ParseFinanceTs(store.financeTs) # NoTs
                 /\ ParseFinanceTs(store.financeTs) =
                        IF loc["p1"].probe = "ok" THEN loc["p1"].serverTimestamp
                        ELSE ClientNow(clock - 1)

\* C19 witness: getUserDataWithCache found the cache empty, its probe threw,
\* its one fetch answered 200, and the record is cached under the client's
\* clock.
C19_Witness ==
    /\ Done("p1", {"getUserDataWithCache"}) /\ pre.userData = NoValue
    /\ loc["p1"].probe = "throw" /\ loc["p1"].fetch = "ok"
    /\ loc["p1"].nFull = 1
    /\ store.userData # NoValue /\ store.userUpdatedAt = ClientNow(0)

\* C20: when the full fetch of getUserDataWithCache /
\* getFinanceDataWithCache answers a non-200 status or throws, the call
\* resolves to what the cache held before (null, or empty lists, when it held
\* nothing) and the store is as it was.
C20_FetchFailureServesCache ==
    /\ Done("p1", {"getUserDataWithCache"}) /\ loc["p1"].fetch \in {"fail", "throw"}
       => /\ store = pre
          /\ loc["p1"].ret = WithPhoto(ParseUserData(pre.userData), pre.userPhoto)
    /\ Done("p1", {"getFinanceDataWithCache"}) /\ loc["p1"].fetch \in {"fail", "throw"}
       => /\ store = pre
          /\ loc["p1"].ret = FinanceView(ParseFinanceData(pre.financeData))

\* C20 witness: the probe answered 200 with a timestamp other than the cached
\* one, the fetch of the user record failed, and the call resolved to the
\* record cached before.
C20_Witness ==
    /\ Done("p1", {"getUserDataWithCache"})
    /\ loc["p1"].probe = "ok" /\ loc["p1"].shouldUpdate
    /\ loc["p1"].fetch = "fail" /\ pre.userData # NoValue
    /\ loc["p1"].serverTimestamp # pre.userUpdatedAt
    /\ loc["p1"].ret # Null

C24_ShouldFetchExactly ==
    [][ \A p \in Procs :
          /\ pc[p] = "sfp_getTs" /\ pc'[p] # "sfp_getTs"
               => (pc'[p] = "photo_fetch"
                     <=> \/ loc'[p].nFault > loc[p].nFault
                         \/ loc[p].photoBlob = NoTs
                         \/ store.userPhotoTs = NoTs
                         \/ store.userPhotoTs # PhotoVersionOf(loc[p].wbData, loc[p].wbTs))
          /\ pc[p] = "sfp_getBlob" /\ pc'[p] # "sfp_getBlob" /\ loc'[p].nFault > loc[p].nFault
               => pc'[p] = "photo_fetch" ]_vars

\* C24 witness: the read threw while the blob was cached under the marker of
\* the record, and the download was started
C24_Witness ==
    /\ pc["p1"] = "photo_fetch" /\ loc["p1"].nFault = 1 /\ loc["p1"].nPhoto = 1
    /\ store.userPhoto # NoTs
    /\ store.userPhotoTs = PhotoVersionOf(loc["p1"].wbData, loc["p1"].wbTs)

\* C25: fetchAndCachePhotoBlob persists content and version together: when
\* it returns, either the stored blob is the downloaded content and the
\* stored marker the version it was given, or blob and marker are what they
\* were when the call began.
C25_ContentAndVersionTogether ==
    [][ \A p \in Procs :
          /\ pc[p] \in {"photo_fetch", "photo_saveBlob", "photo_saveTs"}
          /\ pc'[p] \notin {"photo_fetch", "photo_saveBlob", "photo_saveTs"}
          => \/ /\ loc[p].photoContent # NoTs
                /\ store'.userPhoto = loc[p].photoContent
                /\ store'.userPhotoTs = PhotoVersionOf(loc[p].wbData, loc[p].wbTs)
             \/ /\ store'.userPhoto = pre.userPhoto
                /\ store'.userPhotoTs = pre.userPhotoTs ]_vars

\* C27: clearCache and clearAllFinanceCache remove the keys of their record
\* type as one unit: when the call has returned the keys are all absent (or,
\* at the least, all as they were), never only some of them.
C27_ClearIsWhole ==
    \A p \in Procs :
        pc[p] = "done" =>
            /\ op[p] = "clearCache" =>
                   \/ /\ store.userPhoto = NoTs /\ store.userPhotoTs = NoTs
                      /\ store.userData = NoValue /\ store.userUpdatedAt = NoTs
                   \/ store = pre
            /\ op[p] = "clearAllFinanceCache" =>
                   \/ store.financeData = NoValue /\ store.financeTs = NoValue
                   \/ store = pre

\* C28: no public operation rejects, whatever fails among the probe, the
\* fetch, the PUT, the photo download and the Preferences calls: no call
\* ever leaves its steps through an exception that nothing catches.
C28_NeverRejects == \A p \in Procs : pc[p] # "rejected"

\* C28 witness: getUserDataWithCache has resolved (to null) after the probe
\* threw, the fetch threw and both reads of the store threw
C28_Witness ==
    /\ pc["p1"] = "done" /\ op["p1"] = "getUserDataWithCache"
    /\ loc["p1"].probe = "throw" /\ loc["p1"].fetch = "throw"
    /\ loc["p1"].nFault = 2 /\ loc["p1"].ret = Null

\* C26: forceRefreshUserData and forceRefreshFinanceData issue the full fetch
\* once and no timestamp probe, whatever the cache holds; after a 200 answer
\* the cache holds the fetched payload and a timestamp; after a failure null
\* is returned and the store is as it was.
C26_ForceRefresh ==
    \A p \in Procs :
        pc[p] = "done" /\ op[p] \in {"forceRefreshUserData", "forceRefreshFinanceData"} =>
            /\ loc[p].nFull = 1 /\ loc[p].nProbe = 0
            /\ loc[p].fetch \in {"ok", "fail", "throw"}
            /\ loc[p].fetch # "ok" => loc[p].ret = Null /\ store = pre
            /\ loc[p].fetch = "ok" /\ op[p] = "forceRefreshUserData" =>
                   /\ ParseUserData(store.userData) = loc[p].wbData
                   /\ loc[p].ret = WithPhoto(loc[p].wbData, store.userPhoto)
                   /\ store.userUpdatedAt = loc[p].wbTs /\ loc[p].wbTs # NoTs
            /\ loc[p].fetch = "ok" /\ op[p] = "forceRefreshFinanceData" =>
                   /\ ParseFinanceData(store.financeData) = loc[p].wbData
                   /\ FinanceView(loc[p].wbData) = loc[p].ret
                   /\ ParseFinanceTs(store.financeTs) = loc[p].wbTs /\ loc[p].wbTs # NoTs

\* C26 witness: forceRefreshFinanceData has fetched and stored although the
\* cache was up to date when it was called
C26_Witness ==
    /\ pc["p1"] = "done" /\ op["p1"] = "forceRefreshFinanceData"
    /\ loc["p1"].fetch = "ok"
    /\ pre.financeTs = JSONstringify(srvFin)
    /\ ParseFinanceData(pre.financeData).transactions = TransactionsAt(srvFin)
    /\ store.financeTs # pre.financeTs

\* C21: the stored finance timestamp reflects the version of the stored
\* payload: whenever no call is running and the stored timestamp is the
\* server's timestamp, the cached transactions and accounts are the ones the
\* server holds at that version.
C21_TimestampReflectsPayload ==
    /\ Quiescent
    /\ store.financeTs \notin {NoValue, Corrupt}
    /\ ParseFinanceData(store.financeData) # Null
    /\ ParseFinanceTs(store.financeTs) = srvFin
    => /\ ParseFinanceData(store.financeData).transactions = TransactionsAt(srvFin)
       /\ ParseFinanceData(store.financeData).accounts = AccountsAt(srvFin)

\* C29: a stored value that cannot be decoded counts as no cached data:
\* checkUserUpdateStatus / checkFinanceUpdateStatus whose probe answered 200
\* over an undecodable payload or timestamp returns shouldUpdate = true.
C29_CorruptIsNoData ==
    \A p \in Procs :
        /\ pc[p] = "done" /\ loc[p].probe = "ok"
        /\ \/ op[p] = "checkUserUpdateStatus" /\ store.userData = Corrupt
           \/ /\ op[p] = "checkFinanceUpdateStatus"
              /\ Corrupt \in {store.financeData, store.financeTs}
        => loc[p].ret.shouldUpdate

C23_OptimisticPhotoNotSkipped ==
    [][ \A p \in Procs :
          /\ pc[p] = "ucp_saveTs" /\ pc'[p] # "ucp_saveTs" /\ store.userPhotoTs # NoTs
               => store'.userPhotoTs = store.userPhotoTs /\ store'.userPhoto = TempPhoto
          /\ pc[p] = "sfp_getTs" /\ pc'[p] # "sfp_getTs" /\ op[p] = "handlePhotoUploadFile"
               => pc'[p] = "photo_fetch"
          /\ pc'[p] = "upl_getBlob" /\ loc'[p].photoContent = loc'[p].wbData.photo
               => /\ store'.userPhoto = loc'[p].wbData.photo
                  /\ store'.userPhotoTs = loc'[p].wbData.updated_at ]_vars

\* C23 witness: an upload over a cached photo has reached its last step; the
\* marker the optimistic update had kept was replaced by the new version and
\* the blob by the server's photo, both downloads having been made
C23_Witness ==
    /\ pc["p1"] = "upl_getBlob" /\ loc["p1"].nPhoto = 2
    /\ pre.userPhotoTs # NoTs /\ pre.userPhotoTs # loc["p1"].wbData.updated_at
    /\ store.userPhoto = loc["p1"].wbData.photo
    /\ store.userPhotoTs = loc["p1"].wbData.updated_at

\* C36: a failure of the refresh that getAccountsWithCachedBalances leaves
\* running is caught inside the cache manager: it never ends in a promise
\* rejection that nothing handles.
C36_BackgroundFailureCaught == \A p \in Procs : pc[p] # "unhandled"

\* C34: the cache converges with the server: when a call has fetched and
\* written back and the server still holds what was fetched, the decision of
\* the next checkUserUpdateStatus / checkFinanceUpdateStatus whose probe
\* answers 200 (the stored timestamp against the server's) is shouldUpdate =
\* false.
C34_Converges ==
    \A p \in Procs :
        pc[p] = "done" /\ loc[p].fetch = "ok" =>
            /\ /\ op[p] \in {"getUserDataWithCache", "forceRefreshUserData"}
               /\ loc[p].wbData = UserPayload(srvUser)
               => ~UserShouldUpdate(ParseUserData(store.userData), store.userUpdatedAt,
                                    srvUser.updated_at)
            /\ /\ op[p] \in {"getFinanceDataWithCache", "forceRefreshFinanceData",
                             "getAccountsWithCachedBalances"}
               /\ loc[p].wbData.accounts = AccountsAt(srvFin)
               /\ store.financeTs # Corrupt
               => ~determineShouldUpdate(ParseFinanceData(store.financeData),
                                         ParseFinanceTs(store.financeTs), srvFin)

\* C35: when the write of the payload fails during a writeback of the user
\* record, the stored timestamp is not advanced: cacheUserData never returns
\* with the previous record still stored and the timestamp of the new one
\* beside it.
C35_FailedPayloadKeepsTimestamp ==
    [][ \A p \in Procs :
          /\ pc[p] = "cud_saveUpdatedAt" /\ pc'[p] # "cud_saveUpdatedAt"
          /\ ParseUserData(pre.userData) # Null
          /\ store'.userData = pre.userData
          /\ pre.userData # JSONstringify(loc[p].wbData)
          => store'.userUpdatedAt = pre.userUpdatedAt ]_vars

\* C32: isCurrentlySyncing is true exactly while a sync cycle is under way
\* (from the start of performSync to its finally), and at most one
\* updateUserProfile request is in flight, also when clearPendingUpdates is
\* called during a sync.
C32_FlagMeansInFlight ==
    /\ isCurrentlySyncing <=> \E p \in Procs : op[p] \in SyncOps /\ pc[p] \notin {"idle", "done"}
    /\ \A p, q \in Procs : pc[p] = "sync_put" /\ pc[q] = "sync_put" => p = q

\* C31: with cached accountsWithBalances getAccountsWithCachedBalances
\* returns them at once, with no request of its own, and leaves a status
\* check running; that check comes to an end, and when it finds the cache
\* stale it fetches, and a successful fetch rewrites the bundle (with the
\* fetched accounts as accountsWithBalances) and the timestamp, which is what
\* a later call returns.
C31_InstantThenRefresh ==
    /\ [][ LET cachedData == ParseFinanceData(store.financeData) IN
             /\ pc["p1"] = "gab_getData" /\ pc'["p1"] # "gab_getData"
             /\ cachedData # Null
             /\ Len(cachedData.accountsWithBalances) > 0
             => /\ pc'["p1"] = "done"
                /\ loc'["p1"].ret = cachedData.accountsWithBalances
                /\ loc'["p1"].nProbe = 0 /\ loc'["p1"].nFull = 0
                /\ pc'[Background] = "cfs_probe" /\ op'[Background] = "backgroundRefresh"
                /\ store' = store ]_vars
    /\ [](/\ op[Background] = "backgroundRefresh" /\ pc[Background] = "done"
          /\ loc[Background].probe = "ok" /\ loc[Background].shouldUpdate
          => /\ loc[Background].nFull = 1
             /\ loc[Background].fetch = "ok" =>
                   /\ store.financeData = JSONstringify(loc[Background].wbData)
                   /\ loc[Background].wbData.accountsWithBalances = loc[Background].ret.accounts
                   /\ store.financeTs = JSONstringify(loc[Background].serverTimestamp))
    /\ (pc[Background] = "cfs_probe") ~> (pc[Background] = "idle")

\* C31 witness: the refresh found the cache stale, fetched the accounts of a
\* later server version and has rewritten the cache with them
C31_Witness ==
    /\ op[Background] = "backgroundRefresh" /\ pc[Background] = "done"
    /\ loc[Background].probe = "ok"
    /\ loc[Background].shouldUpdate /\ loc[Background].fetch = "ok"
    /\ srvFin > 1
    /\ store.financeData # NoValue /\ store.financeData # Corrupt
    /\ ParseFinanceData(store.financeData).accountsWithBalances = AccountsAt(srvFin)

\* C33: whenever no cacheFinanceData is between its two writes (or about to
\* make them), the timestamp inside the stored finance bundle equals the
\* stored finance timestamp key, also when the refresh left running by
\* getAccountsWithCachedBalances overlaps a foreground fetch.
C33_BundleTimestampMatchesKey ==
    /\ \A p \in Procs : pc[p] \notin {"cfd_saveData", "cfd_saveTs"}
    /\ store.financeData # NoValue /\ store.financeData # Corrupt
    => /\ store.financeTs # NoValue /\ store.financeTs # Corrupt
       /\ ParseFinanceData(store.financeData).timestamp = ParseFinanceTs(store.financeTs)

\* C38: the write of updateCachedPhoto changes only the photo field of the
\* record that is in the cache when it writes, and leaves the stored record
\* timestamp as it is, also when a writeback (of a sync success) ran from
\* start to end between its read and its write.
C38_OnlyPhotoFieldChanges ==
    [][ \A p \in Procs :
          /\ /\ pc[p] = "ucp_saveData" /\ pc'[p] # "ucp_saveData"
             /\ ParseUserData(store.userData) # Null
             /\ \A q \in Procs : pc[q] \notin WritebackPcs
             => store'.userData =
                    JSONstringify([ParseUserData(store.userData) EXCEPT !.photo = TempUrl])
          /\ /\ pc[p] = "ucp_saveDataTs" /\ pc'[p] # "ucp_saveDataTs"
             /\ store.userUpdatedAt # NoTs
             /\ \A q \in Procs : pc[q] \notin WritebackPcs
             => store'.userUpdatedAt = store.userUpdatedAt ]_vars

\* C37: when the record is cached with a photo URL and version V (the
\* server's current version), then under repeated getUserDataWithCache calls
\* over a working network the photo marker becomes V, unless the record
\* changes on the server first; also when the photo download failed during
\* the writeback that stored V.
C37_PhotoMarkerCatchesUp ==
    \A v \in 1..MaxVer :
        (/\ Quiescent
         /\ ParseUserData(store.userData) # Null
         /\ ParseUserData(store.userData).photo # NoTs
         /\ ParseUserData(store.userData).updated_at = v
         /\ store.userUpdatedAt = v
         /\ srvUser.updated_at = v)
        ~> (store.userPhotoTs = v \/ srvUser.updated_at # v)

====
